---- MODULE Spec2Model ----
(***************************************************************************)
(* tool_master core: the Tool / ToolParameter / ToolResult data model      *)
(* (schemas/tool.py), the ToolRegistry (registry/registry.py) and the      *)
(* executor family (executors/*.py), as a state machine.                   *)
(*                                                                         *)
(* Python values are tagged records: None is [t |-> "None"], a str is      *)
(* [t |-> "str", v |-> ...].  Names (tool, parameter, category, tag names) *)
(* are atomic strings; formatted text (f-strings, str.join) is the         *)
(* sequence of its pieces, so that "contains" is a contiguous-subsequence  *)
(* test on what the formatting really produced.                            *)
(***************************************************************************)
EXTENDS Naturals, Sequences, FiniteSets, TLC

\* ------------------------------------------------------------------ bounds
\* longest tag list of a modelled tool
MaxTags == 2
\* longest parameter list of a modelled tool
MaxParams == 2
\* most arguments of a modelled call
MaxArgs == 2

\* ------------------------------------------------------------ Python values
PyNone == [t |-> "None"]
PyStr(s) == [t |-> "str", v |-> s]
PyInt(n) == [t |-> "int", v |-> n]

\* bool(x) for an Optional[str]: None and "" are falsy
Truthy(x) == x.t = "str" /\ x.v # ""

\* all sequences over S of length at most n
SeqsUpTo(S, n) == UNION {[1..k -> S] : k \in 0..n}

\* ------------------------------------------------------------------ universe
ToolNames == {"t1", "t2"}
CategoryValues == {PyNone, PyStr(""), PyStr("c1"), PyStr("c2")}
TagNames == {"x", "y"}
TagLists == SeqsUpTo(TagNames, MaxTags)

\* the handler slot of a Tool that was never given to set_handler
NoHandler == [bound |-> FALSE, mode |-> "-", outcome |-> "-", exc |-> "-", payload |-> PyNone]

\* Tool(name=..., description=..., parameters=..., category=..., tags=...)
Tool(n, d, ps, c, ts, h) ==
    [name |-> n, description |-> d, parameters |-> ps, category |-> c,
     tags |-> ts, version |-> "1.0.0", _handler |-> h]

\* the description each registry tool is built with
DescriptionOf(n) == IF n = "t1" THEN "Ab" ELSE "Ba c"

\* the tools offered to the registry: schema-only tools in every category/tag shape
RegTools ==
    {Tool(n, DescriptionOf(n), << >>, c, ts, NoHandler) :
        n \in ToolNames, c \in CategoryValues, ts \in TagLists}

\* ------------------------------------------------------------------ registry
\* ToolRegistry.__init__
EmptyRegistry ==
    [_tools |-> << >>, _categories |-> << >>, _tags |-> << >>]

\* d[k] = v on a dict (insert or overwrite)
DictSet(d, k, v) == [x \in (DOMAIN d) \cup {k} |-> IF x = k THEN v ELSE d[x]]

\* d.pop(k): the dict without key k
DictDel(d, k) == [x \in (DOMAIN d) \ {k} |-> d[x]]

\* index[key] = {name}: the names already under the key are lost
IndexAdd_ReplacesSet(index, key, name) == DictSet(index, key, {name})

\* if key not in index: index[key] = set(); index[key].add(name)
IndexAdd(index, key, name) ==
    LET cur == IF key \in DOMAIN index THEN index[key] ELSE {}
    IN  DictSet(index, key, cur \cup {name})

\* the discard left out: the name stays in the set
IndexDiscard_KeepsName(index, key, name) == index

\* the key is deleted with its last name
IndexDiscard_PrunesKey(index, key, name) ==
    IF key \notin DOMAIN index THEN index
    ELSE IF index[key] \ {name} = {} THEN DictDel(index, key)
    ELSE DictSet(index, key, index[key] \ {name})

\* if key in index: index[key].discard(name)
IndexDiscard(index, key, name) ==
    IF key \in DOMAIN index THEN DictSet(index, key, index[key] \ {name}) ELSE index

\* for tag in tool.tags: ... self._tags[tag].add(tool.name)
RECURSIVE AddTags(_, _, _)
AddTags(index, ts, name) ==
    IF ts = << >> THEN index
    ELSE AddTags(IndexAdd(index, Head(ts), name), Tail(ts), name)

\* for tag in tool.tags: if tag in self._tags: self._tags[tag].discard(name)
RECURSIVE DiscardTags(_, _, _)
DiscardTags(index, ts, name) ==
    IF ts = << >> THEN index
    ELSE DiscardTags(IndexDiscard(index, Head(ts), name), Tail(ts), name)

\* register with the duplicate check after the index updates instead of before them
register_IndexBeforeCheck(self, tool) ==
    LET indexed == [_tools |-> self._tools,
                    _categories |->
                        IF Truthy(tool.category)
                        THEN IndexAdd(self._categories, tool.category.v, tool.name)
                        ELSE self._categories,
                    _tags |-> AddTags(self._tags, tool.tags, tool.name)]
    IN  IF tool.name \in DOMAIN self._tools
        THEN [raised |-> TRUE, reg |-> indexed]
        ELSE [raised |-> FALSE,
              reg |-> [indexed EXCEPT !._tools = DictSet(self._tools, tool.name, tool)]]

\* register that stores the tool and leaves the category index alone
register_SkipsCategoryIndex(self, tool) ==
    IF tool.name \in DOMAIN self._tools
    THEN [raised |-> TRUE, reg |-> self]
    ELSE [raised |-> FALSE,
          reg |-> [_tools |-> DictSet(self._tools, tool.name, tool),
                   _categories |-> self._categories,
                   _tags |-> AddTags(self._tags, tool.tags, tool.name)]]

\* ToolRegistry.register: [raised, reg] - the ValueError, or the registry after
register(self, tool) ==
    IF tool.name \in DOMAIN self._tools
    THEN [raised |-> TRUE, reg |-> self]
    ELSE [raised |-> FALSE,
          reg |-> [_tools |-> DictSet(self._tools, tool.name, tool),
                   _categories |->
                       IF Truthy(tool.category)
                       THEN IndexAdd(self._categories, tool.category.v, tool.name)
                       ELSE self._categories,
                   _tags |-> AddTags(self._tags, tool.tags, tool.name)]]

\* unregister that pops the tool and forgets the tag index
unregister_KeepTags(self, name) ==
    IF name \notin DOMAIN self._tools
    THEN [found |-> FALSE, tool |-> PyNone, reg |-> self]
    ELSE LET tool == self._tools[name]
         IN  [found |-> TRUE, tool |-> tool,
              reg |-> [_tools |-> DictDel(self._tools, name),
                       _categories |->
                           IF Truthy(tool.category)
                           THEN IndexDiscard(self._categories, tool.category.v, name)
                           ELSE self._categories,
                       _tags |-> self._tags]]

\* unregister that empties every tag set when the name is not registered
unregister_AbsentSweepsTags(self, name) ==
    LET swept == [self EXCEPT !._tags = [t \in DOMAIN self._tags |-> {}]]
    IN  IF name \notin DOMAIN self._tools
        THEN [found |-> FALSE, tool |-> PyNone, reg |-> swept]
        ELSE LET tool == self._tools[name]
             IN  [found |-> TRUE, tool |-> tool,
                  reg |-> [_tools |-> DictDel(self._tools, name),
                           _categories |->
                               IF Truthy(tool.category)
                               THEN IndexDiscard(self._categories, tool.category.v, name)
                               ELSE self._categories,
                           _tags |-> DiscardTags(self._tags, tool.tags, name)]]

\* unregister that pops the tool and forgets the category index
unregister_KeepCategory(self, name) ==
    IF name \notin DOMAIN self._tools
    THEN [found |-> FALSE, tool |-> PyNone, reg |-> self]
    ELSE LET tool == self._tools[name]
         IN  [found |-> TRUE, tool |-> tool,
              reg |-> [_tools |-> DictDel(self._tools, name),
                       _categories |-> self._categories,
                       _tags |-> DiscardTags(self._tags, tool.tags, name)]]

\* ToolRegistry.unregister: [found, tool, reg] - the popped tool and the registry after
unregister(self, name) ==
    IF name \notin DOMAIN self._tools
    THEN [found |-> FALSE, tool |-> PyNone, reg |-> self]
    ELSE LET tool == self._tools[name]
         IN  [found |-> TRUE, tool |-> tool,
              reg |-> [_tools |-> DictDel(self._tools, name),
                       _categories |->
                           IF Truthy(tool.category)
                           THEN IndexDiscard(self._categories, tool.category.v, name)
                           ELSE self._categories,
                       _tags |-> DiscardTags(self._tags, tool.tags, name)]]

\* ------------------------------------------------------- ordered dicts
\* A dict that is iterated (arguments, kwargs) is the sequence of its items in
\* insertion order, each item <<key, value>>.
Keys(items) == {items[i][1] : i \in DOMAIN items}
Has(items, k) == k \in Keys(items)
Get(items, k) == items[CHOOSE i \in DOMAIN items : items[i][1] = k][2]
\* items[k] = v: overwrite in place, or append a new key
Put(items, k, v) ==
    IF Has(items, k)
    THEN [i \in DOMAIN items |-> IF items[i][1] = k THEN <<k, v>> ELSE items[i]]
    ELSE Append(items, <<k, v>>)
\* the dict as a mapping, its order forgotten
AsMap(items) == [k \in Keys(items) |-> Get(items, k)]
DistinctKeys(items) == \A i, j \in DOMAIN items : items[i][1] = items[j][1] => i = j

\* ------------------------------------------------------------------- text
\* "sep".join(parts), each part and the result a sequence of pieces
RECURSIVE Join(_, _)
Join(parts, sep) ==
    IF parts = << >> THEN << >>
    ELSE IF Len(parts) = 1 THEN parts[1]
    ELSE parts[1] \o sep \o Join(Tail(parts), sep)

\* sub in text
Contains(text, sub) ==
    \E i \in 0..(Len(text) - Len(sub)) : SubSeq(text, i + 1, i + Len(sub)) = sub

\* the characters of the strings search compares
Chars(s) ==
    CASE s = "t1" -> <<"t", "1">>
      [] s = "t2" -> <<"t", "2">>
      [] s = "Ab" -> <<"A", "b">>
      [] s = "Ba c" -> <<"B", "a", " ", "c">>
      [] s = "aB" -> <<"a", "B">>
      [] s = "T" -> <<"T">>
      [] s = "ac" -> <<"a", "c">>
      [] s = "" -> << >>

\* str.lower() on one character
LowerChar(ch) ==
    CASE ch = "A" -> "a"
      [] ch = "B" -> "b"
      [] ch = "T" -> "t"
      [] OTHER -> ch

\* s.lower(), as characters
lower(s) == LET cs == Chars(s) IN [i \in DOMAIN cs |-> LowerChar(cs[i])]

\* ------------------------------------------------------------ registry reads
\* index.get(key, set())
IndexGet(index, key) == IF key \in DOMAIN index THEN index[key] ELSE {}

\* d[k]: the value, or the KeyError the subscript raises
Subscript(d, k) == IF k \in DOMAIN d THEN d[k] ELSE [raised |-> "KeyError", key |-> k]

\* the names a read subscripts, the `if` of the comprehension left out
LookedUp_Unfiltered(self, names) == names

\* for name in names if name in self._tools
LookedUp(self, names) == {n \in names : n \in DOMAIN self._tools}

\* [self._tools[name] for name in names if name in self._tools], as a set
ToolsNamed(self, names) ==
    {Subscript(self._tools, name) : name \in LookedUp(self, names)}

\* ToolRegistry.get
get(self, name) == IF name \in DOMAIN self._tools THEN self._tools[name] ELSE PyNone

\* ToolRegistry.get_by_category
get_by_category(self, category) == ToolsNamed(self, IndexGet(self._categories, category))

\* ToolRegistry.get_by_tag
get_by_tag(self, tag) == ToolsNamed(self, IndexGet(self._tags, tag))

\* a list value, and bool(x) for an Optional[list]: None and [] are falsy
PyList(items) == [t |-> "list", v |-> items]
TruthyList(x) == x.t = "list" /\ x.v # << >>

\* [self._tags.get(tag, set()) for tag in tags]
TagSets(self, tags) == [i \in DOMAIN tags |-> IndexGet(self._tags, tags[i])]

\* set.intersection(*sets) of a non-empty list of sets
SetIntersection(sets) == {n \in sets[1] : \A i \in DOMAIN sets : n \in sets[i]}

\* set.union(*sets)
SetUnion(sets) == UNION {sets[i] : i \in DOMAIN sets}

\* get_by_tags that takes the union whatever match_all says
get_by_tags_AlwaysAny(self, tags, match_all) ==
    IF tags = << >> THEN {}
    ELSE ToolsNamed(self, SetUnion(TagSets(self, tags)))

\* ToolRegistry.get_by_tags, as a set
get_by_tags(self, tags, match_all) ==
    IF tags = << >> THEN {}
    ELSE LET tag_sets == TagSets(self, tags)
             matching_names == IF match_all THEN SetIntersection(tag_sets)
                               ELSE SetUnion(tag_sets)
         IN  ToolsNamed(self, matching_names)

\* ToolRegistry.all, as a set
all(self) == {self._tools[name] : name \in DOMAIN self._tools}

\* query_lower in t.name.lower() or query_lower in t.description.lower()
QueryMatches(query, t) ==
    LET query_lower == lower(query)
    IN  \/ Contains(lower(t.name), query_lower)
        \/ Contains(lower(t.description), query_lower)

\* search that compares the query with the name and description as written
search_CaseSensitive(self, query, category, tags) ==
    LET byCategory == IF Truthy(category)
                      THEN {t \in all(self) : t.category = category}
                      ELSE all(self)
        byTags == IF TruthyList(tags)
                  THEN {t \in byCategory : t.name \in SetUnion(TagSets(self, tags.v))}
                  ELSE byCategory
    IN  IF Truthy(query)
        THEN {t \in byTags : \/ Contains(Chars(t.name), Chars(query.v))
                              \/ Contains(Chars(t.description), Chars(query.v))}
        ELSE byTags

\* ToolRegistry.search, as a set
search(self, query, category, tags) ==
    LET byCategory == IF Truthy(category)
                      THEN {t \in all(self) : t.category = category}
                      ELSE all(self)
        byTags == IF TruthyList(tags)
                  THEN {t \in byCategory : t.name \in SetUnion(TagSets(self, tags.v))}
                  ELSE byCategory
    IN  IF Truthy(query)
        THEN {t \in byTags : QueryMatches(query.v, t)}
        ELSE byTags

\* every key of the index, its set empty or not
NonEmptyKeys_AllKeys(index) == DOMAIN index
\* the keys of an index whose set is non-empty
NonEmptyKeys(index) == {k \in DOMAIN index : index[k] # {}}

\* ToolRegistry.categories, as a set
categories(self) == NonEmptyKeys(self._categories)

\* ToolRegistry.tags_list, as a set
tags_list(self) == NonEmptyKeys(self._tags)

\* ToolRegistry.__len__
__len__(self) == Cardinality(DOMAIN self._tools)

\* ToolRegistry.__contains__
__contains__(self, name) == name \in DOMAIN self._tools

\* ----------------------------------------------------- parameters, handlers
ParamNames == {"a", "b", "c"}
\* a default that is falsy and yet set
DefaultValues == {PyNone, PyInt(0)}
ArgNames == ParamNames \cup {"z"}
ArgValues == {PyInt(1)}

\* ToolParameter(name=..., type=STRING, description=..., required=..., default=...)
ToolParameter(n, req, dflt) ==
    [name |-> n, type |-> "string", description |-> "d", required |-> req,
     default |-> dflt, enum |-> PyNone, items_type |-> PyNone]

ExecParams ==
    {ToolParameter(n, req, dflt) : n \in ParamNames, req \in BOOLEAN, dflt \in DefaultValues}

\* parameter lists: at most MaxParams parameters, their names unique (spec, data model)
ParamLists ==
    {ps \in SeqsUpTo(ExecParams, MaxParams) :
        \A i, j \in DOMAIN ps : ps[i].name = ps[j].name => i = j}

\* exception classes a handler may raise; the last derives from BaseException only
ExcClasses == {"ValueError", "KeyError", "KeyboardInterrupt"}
\* isinstance(e, Exception)
IsException(e) == e.cls \in {"ValueError", "KeyError"}
\* str(e) of an exception built with the one argument msg: KeyError shows repr(msg)
StrOfException(e) ==
    IF e.cls = "KeyError" THEN <<"'", e.msg, "'">> ELSE <<e.msg>>

\* the messages handlers raise with; ValueError("") has the empty str(e)
ExcMessages == {"boom", ""}

\* What a bound handler does when called with kwargs.  mode "sync": it returns or
\* raises in the call; mode "async": the call returns an awaitable, which returns
\* or raises when awaited.  outcome "return": payload; "echo": the kwargs it
\* received, as a dict; "raise": exc(payload).
Handlers ==
    {[bound |-> TRUE, mode |-> m, outcome |-> o, exc |-> x, payload |-> PyNone] :
        m \in {"sync", "async"}, o \in {"return", "echo"}, x \in {"-"}}
    \cup
    {[bound |-> TRUE, mode |-> m, outcome |-> "raise", exc |-> x, payload |-> PyStr(msg)] :
        m \in {"sync", "async"}, x \in ExcClasses, msg \in ExcMessages}

\* the tools offered to Tool.execute and the executors
ExecTools ==
    {Tool("t1", "desc", ps, PyNone, << >>, h) :
        ps \in ParamLists, h \in Handlers \cup {NoHandler}}

\* argument dicts: at most MaxArgs items, in every insertion order
ArgDicts ==
    {items \in SeqsUpTo(ArgNames \X ArgValues, MaxArgs) : DistinctKeys(items)}

\* -------------------------------------------------------------- ToolResult
\* ToolResult.ok
ok(data) == [success |-> TRUE, data |-> data, error |-> PyNone]
\* ToolResult.fail
fail_MessageInData(error) == [success |-> FALSE, data |-> PyStr(error), error |-> PyNone]
fail(error) == [success |-> FALSE, data |-> PyNone, error |-> PyStr(error)]

\* ------------------------------------------------------------ Tool.execute
NoExc == [cls |-> "-", msg |-> PyNone]
NoPending == [outcome |-> "-", value |-> PyNone, exc |-> NoExc]

\* How a call stands.  pc: "awaiting" (suspended in `await result`) or "done";
\* invoked / received: whether the handler was called, and the kwargs it got;
\* pending: what the awaited computation will do; kind: "returned" (result is the
\* ToolResult), "raised" (exc propagated to the caller) or "-" (not finished).
Frame(pc, invoked, received, pending, kind, result, exc) ==
    [pc |-> pc, invoked |-> invoked, received |-> received, pending |-> pending,
     kind |-> kind, result |-> result, exc |-> exc]

\* return <ToolResult> before the handler was called
ReturnedEarly(result) ==
    Frame("done", FALSE, << >>, NoPending, "returned", result, NoExc)

\* the loop with `if not param.default` in place of `if param.default is None`
RECURSIVE ValidateRequired_FalsyDefault(_, _)
ValidateRequired_FalsyDefault(parameters, kwargs) ==
    IF parameters = << >> THEN [missing |-> PyNone, kwargs |-> kwargs]
    ELSE LET param == Head(parameters)
         IN  IF param.required /\ ~Has(kwargs, param.name)
             THEN IF param.default \in {PyNone, PyInt(0)}
                  THEN [missing |-> PyStr(param.name), kwargs |-> kwargs]
                  ELSE ValidateRequired_FalsyDefault(Tail(parameters),
                                        Put(kwargs, param.name, param.default))
             ELSE ValidateRequired_FalsyDefault(Tail(parameters), kwargs)

\* the loop that goes on after a missing parameter and reports the last one
RECURSIVE ValidateRequired_ReportsLast(_, _)
ValidateRequired_ReportsLast(parameters, kwargs) ==
    IF parameters = << >> THEN [missing |-> PyNone, kwargs |-> kwargs]
    ELSE LET param == Head(parameters)
             rest == ValidateRequired_ReportsLast(Tail(parameters), kwargs)
         IN  IF param.required /\ ~Has(kwargs, param.name)
             THEN IF param.default = PyNone
                  THEN IF rest.missing # PyNone THEN rest
                       ELSE [missing |-> PyStr(param.name), kwargs |-> kwargs]
                  ELSE ValidateRequired_ReportsLast(Tail(parameters),
                                        Put(kwargs, param.name, param.default))
             ELSE rest

\* the loop that applies the default of every absent parameter, required or not
RECURSIVE ValidateRequired_InjectsOptional(_, _)
ValidateRequired_InjectsOptional(parameters, kwargs) ==
    IF parameters = << >> THEN [missing |-> PyNone, kwargs |-> kwargs]
    ELSE LET param == Head(parameters)
         IN  IF ~Has(kwargs, param.name)
             THEN IF param.default = PyNone
                  THEN IF param.required
                       THEN [missing |-> PyStr(param.name), kwargs |-> kwargs]
                       ELSE ValidateRequired_InjectsOptional(Tail(parameters), kwargs)
                  ELSE ValidateRequired_InjectsOptional(Tail(parameters),
                                        Put(kwargs, param.name, param.default))
             ELSE ValidateRequired_InjectsOptional(Tail(parameters), kwargs)

\* for param in self.parameters: ... (lines 84-88): the first required parameter
\* that is absent and has no default ends the loop; a default is put into kwargs
RECURSIVE ValidateRequired(_, _)
ValidateRequired(parameters, kwargs) ==
    IF parameters = << >> THEN [missing |-> PyNone, kwargs |-> kwargs]
    ELSE LET param == Head(parameters)
         IN  IF param.required /\ ~Has(kwargs, param.name)
             THEN IF param.default = PyNone
                  THEN [missing |-> PyStr(param.name), kwargs |-> kwargs]
                  ELSE ValidateRequired(Tail(parameters),
                                        Put(kwargs, param.name, param.default))
             ELSE ValidateRequired(Tail(parameters), kwargs)

\* the value a handler that does not raise produces from its kwargs
HandlerValue(h, kwargs) ==
    IF h.outcome = "echo" THEN [t |-> "dict", v |-> AsMap(kwargs)] ELSE h.payload

\* what the handler does, in the call (sync) or when awaited (async)
HandlerOutcome(h, kwargs) ==
    IF h.outcome = "raise"
    THEN [outcome |-> "raise", value |-> PyNone, exc |-> [cls |-> h.exc, msg |-> h.payload.v]]
    ELSE [outcome |-> "return", value |-> HandlerValue(h, kwargs), exc |-> NoExc]

\* `except ValueError as e` in place of `except Exception as e`
ExceptException_OnlyValueError(e, invoked, received) ==
    IF e.cls = "ValueError"
    THEN Frame("done", invoked, received, NoPending, "returned", fail(StrOfException(e)), NoExc)
    ELSE Frame("done", invoked, received, NoPending, "raised", PyNone, e)

\* except Exception as e: return ToolResult.fail(str(e)) - any other BaseException
\* leaves execute
ExceptException(e, invoked, received) ==
    IF IsException(e)
    THEN Frame("done", invoked, received, NoPending, "returned", fail(StrOfException(e)), NoExc)
    ELSE Frame("done", invoked, received, NoPending, "raised", PyNone, e)

\* the end of the try block once `result` is the handler's own outcome (lines 95-100)
Finish(outcome, received) ==
    IF outcome.outcome = "raise"
    THEN ExceptException(outcome.exc, TRUE, received)
    ELSE Frame("done", TRUE, received, NoPending, "returned", ok(outcome.value), NoExc)

\* execute that checks the parameters before it checks the handler
Tool_execute_ValidateFirst(self, kwargs) ==
    LET v == ValidateRequired(self.parameters, kwargs)
    IN  IF v.missing # PyNone
        THEN ReturnedEarly(fail(<<"Missing required parameter: ", v.missing.v>>))
        ELSE IF ~self._handler.bound
             THEN ReturnedEarly(fail(<<"No handler set for tool '", self.name, "'">>))
             ELSE IF self._handler.mode = "async"
                  THEN Frame("awaiting", TRUE, v.kwargs,
                             HandlerOutcome(self._handler, v.kwargs), "-", PyNone, NoExc)
                  ELSE Finish(HandlerOutcome(self._handler, v.kwargs), v.kwargs)

\* execute without `result = await result`: the awaitable itself becomes the data
Tool_execute_NoAwait(self, kwargs) ==
    IF ~self._handler.bound
    THEN ReturnedEarly(fail(<<"No handler set for tool '", self.name, "'">>))
    ELSE LET v == ValidateRequired(self.parameters, kwargs)
         IN  IF v.missing # PyNone
             THEN ReturnedEarly(fail(<<"Missing required parameter: ", v.missing.v>>))
             ELSE IF self._handler.mode = "async"
                  THEN Frame("done", TRUE, v.kwargs, NoPending, "returned",
                             ok([t |-> "coroutine"]), NoExc)
                  ELSE Finish(HandlerOutcome(self._handler, v.kwargs), v.kwargs)

\* Tool.execute(**kwargs) up to its first suspension or its end
Tool_execute(self, kwargs) ==
    IF ~self._handler.bound
    THEN ReturnedEarly(fail(<<"No handler set for tool '", self.name, "'">>))
    ELSE LET v == ValidateRequired(self.parameters, kwargs)
         IN  IF v.missing # PyNone
             THEN ReturnedEarly(fail(<<"Missing required parameter: ", v.missing.v>>))
             ELSE IF self._handler.mode = "async"
                  THEN Frame("awaiting", TRUE, v.kwargs,
                             HandlerOutcome(self._handler, v.kwargs), "-", PyNone, NoExc)
                  ELSE Finish(HandlerOutcome(self._handler, v.kwargs), v.kwargs)

\* result = await result, and what follows it
Tool_execute_resume(f) == Finish(f.pending, f.received)

\* --------------------------------------------------------------- executors
\* for param in tool.parameters: required and absent -> one message each
RECURSIVE MissingErrors(_, _)
MissingErrors(parameters, arguments) ==
    IF parameters = << >> THEN << >>
    ELSE LET param == Head(parameters)
             rest == MissingErrors(Tail(parameters), arguments)
         IN  IF param.required /\ ~Has(arguments, param.name)
             THEN << <<"Missing required parameter: ", param.name>> >> \o rest
             ELSE rest

\* for arg_name in arguments: not a declared name -> one message each
RECURSIVE UnknownErrors(_, _)
UnknownErrors(known_params, arguments) ==
    IF arguments = << >> THEN << >>
    ELSE LET arg_name == Head(arguments)[1]
             rest == UnknownErrors(known_params, Tail(arguments))
         IN  IF arg_name \notin known_params
             THEN << <<"Unknown parameter: ", arg_name>> >> \o rest
             ELSE rest

\* validate_arguments without the loop over the argument names
validate_arguments_NoUnknownCheck(tool, arguments) ==
    MissingErrors(tool.parameters, arguments)

\* validate_arguments that stops at the first violation it finds
validate_arguments_FirstOnly(tool, arguments) ==
    LET known_params == {tool.parameters[i].name : i \in DOMAIN tool.parameters}
        errors == MissingErrors(tool.parameters, arguments)
                      \o UnknownErrors(known_params, arguments)
    IN  IF errors = << >> THEN errors ELSE <<errors[1]>>

\* BaseExecutor.validate_arguments: the list of messages
validate_arguments(tool, arguments) ==
    LET known_params == {tool.parameters[i].name : i \in DOMAIN tool.parameters}
    IN  MissingErrors(tool.parameters, arguments) \o UnknownErrors(known_params, arguments)

\* GenericExecutor.execute
GenericExecutor_execute(tool, arguments) ==
    LET errors == validate_arguments(tool, arguments)
    IN  IF errors # << >>
        THEN ReturnedEarly(fail(Join(errors, <<"; ">>)))
        ELSE Tool_execute(tool, arguments)

\* OpenAIExecutor.execute
OpenAIExecutor_execute(tool, arguments) ==
    LET errors == validate_arguments(tool, arguments)
    IN  IF errors # << >>
        THEN ReturnedEarly(fail(Join(errors, <<"; ">>)))
        ELSE Tool_execute(tool, arguments)

\* AnthropicExecutor.execute
AnthropicExecutor_execute(tool, arguments) ==
    LET errors == validate_arguments(tool, arguments)
    IN  IF errors # << >>
        THEN ReturnedEarly(fail(Join(errors, <<"; ">>)))
        ELSE Tool_execute(tool, arguments)

\* execute that calls tool.execute() without the arguments
MCPExecutor_execute_DropsArguments(tool, arguments) ==
    LET errors == validate_arguments(tool, arguments)
    IN  IF errors # << >>
        THEN ReturnedEarly(fail(Join(errors, <<"; ">>)))
        ELSE Tool_execute(tool, << >>)

\* MCPExecutor.execute
MCPExecutor_execute(tool, arguments) ==
    LET errors == validate_arguments(tool, arguments)
    IN  IF errors # << >>
        THEN ReturnedEarly(fail(Join(errors, <<"; ">>)))
        ELSE Tool_execute(tool, arguments)

Executors == {"generic", "openai", "anthropic", "mcp"}

\* ------------------------------------------------------------- JSON schema
\* parameter shapes: type, enum and items_type as ToolParameter(...) may be given
SchemaShapes ==
    {[type |-> "string", enum |-> PyNone, items_type |-> PyNone],
     [type |-> "string", enum |-> PyList(<<PyStr(<<"u">>)>>), items_type |-> PyNone],
     [type |-> "string", enum |-> PyList(<< >>), items_type |-> PyNone],
     [type |-> "array", enum |-> PyNone, items_type |-> PyStr("integer")],
     [type |-> "array", enum |-> PyNone, items_type |-> PyNone]}

SchemaParams ==
    {[name |-> n, type |-> sh.type, description |-> "d", required |-> req,
      default |-> dflt, enum |-> sh.enum, items_type |-> sh.items_type] :
        n \in ParamNames, req \in BOOLEAN, dflt \in DefaultValues, sh \in SchemaShapes}

\* the tools offered to to_json_schema: parameter names unique (spec, data model)
SchemaTools ==
    {Tool("t1", "desc", ps, PyNone, << >>, NoHandler) :
        ps \in {qs \in SeqsUpTo(SchemaParams, MaxParams) :
                    \A i, j \in DOMAIN qs : qs[i].name = qs[j].name => i = j}}

\* prop = {"type": ..., "description": ...}, then the optional "enum" and "items"
ParamProp(param) ==
    LET base == << <<"type", param.type>>, <<"description", param.description>> >>
        withEnum == IF TruthyList(param.enum) THEN Put(base, "enum", param.enum.v)
                    ELSE base
    IN  IF param.type = "array" /\ param.items_type # PyNone
        THEN Put(withEnum, "items", << <<"type", param.items_type.v>> >>)
        ELSE withEnum

\* required grows only for a parameter that has no default
RequiredAfter_SkipsDefaulted(required, param) ==
    IF param.required /\ param.default = PyNone THEN Append(required, param.name)
    ELSE required

\* if param.required: required.append(param.name)
RequiredAfter(required, param) ==
    IF param.required THEN Append(required, param.name) ELSE required

\* the loop of to_json_schema over self.parameters
RECURSIVE SchemaLoop(_, _, _)
SchemaLoop(params, properties, required) ==
    IF params = << >> THEN [properties |-> properties, required |-> required]
    ELSE SchemaLoop(Tail(params),
                    Put(properties, Head(params).name, ParamProp(Head(params))),
                    RequiredAfter(required, Head(params)))

\* Tool.to_json_schema
to_json_schema(self) ==
    LET done == SchemaLoop(self.parameters, << >>, << >>)
    IN  << <<"type", "object">>,
           <<"properties", done.properties>>,
           <<"required", done.required>> >>

\* ---------------------------------------------------------------- rendering
PyBool(b) == [t |-> "bool", v |-> b]
PyDict(items) == [t |-> "dict", v |-> items]

\* json.dumps(x) with the default separators, as pieces of text; a str holds its
\* text as pieces and none of them needs escaping
RECURSIVE JsonDumps(_)
JsonDumps(x) ==
    CASE x.t = "None" -> <<"null">>
      [] x.t = "bool" -> IF x.v THEN <<"true">> ELSE <<"false">>
      [] x.t = "int" -> <<ToString(x.v)>>
      [] x.t = "str" -> <<"\"">> \o x.v \o <<"\"">>
      [] x.t = "list" ->
            <<"[">> \o Join([i \in DOMAIN x.v |-> JsonDumps(x.v[i])], <<", ">>) \o <<"]">>
      [] x.t = "dict" ->
            <<"{">>
            \o Join([i \in DOMAIN x.v |->
                        <<"\"", x.v[i][1], "\"", ": ">> \o JsonDumps(x.v[i][2])],
                    <<", ">>)
            \o <<"}">>

\* the data and error fields a ToolResult may be constructed with
ResultData ==
    {PyNone, PyStr(<< >>), PyStr(<<"hi">>), PyInt(0), PyInt(1), PyBool(FALSE),
     PyList(<< >>), PyList(<<PyInt(1), PyStr(<<"hi">>)>>),
     PyDict(<< >>), PyDict(<< <<"k", PyInt(1)>> >>)}
ResultErrors == {PyNone, PyStr(<< >>), PyStr(<<"boom">>), PyStr(<<"'", "k", "'">>)}

\* ToolResult(success=..., data=..., error=...)
Results ==
    {[success |-> s, data |-> d, error |-> e] :
        s \in BOOLEAN, d \in ResultData, e \in ResultErrors}

\* bool(x) for an Optional[str] whose text is held as pieces
TruthyText(x) == x.t = "str" /\ \E i \in DOMAIN x.v : x.v[i] # ""

\* f"{x}" for an Optional[str]
FormatValue(x) == IF x.t = "None" THEN <<"None">> ELSE x.v

\* {"type": "text", "text": text}
TextBlock(text) == [type |-> "text", text |-> text]

\* _serialize_content that JSON-encodes text data as well
_serialize_content_EncodesText(data) ==
    IF data.t = "None" THEN <<TextBlock(<< >>)>>
    ELSE <<TextBlock(JsonDumps(data))>>

\* MCPExecutor._serialize_content
_serialize_content(data) ==
    IF data.t = "None" THEN <<TextBlock(<< >>)>>
    ELSE IF data.t = "str" THEN <<TextBlock(data.v)>>
    ELSE <<TextBlock(JsonDumps(data))>>

\* MCPExecutor.format_result
MCPExecutor_format_result(result) ==
    IF result.success
    THEN << <<"content", _serialize_content(result.data)>>, <<"isError", FALSE>> >>
    ELSE << <<"content",
              <<TextBlock(IF TruthyText(result.error) THEN result.error.v
                          ELSE <<"Unknown error">>)>> >>,
            <<"isError", TRUE>> >>

\* format_call_tool_result that attaches the data whenever the call succeeded
MCPExecutor_format_call_tool_result_AttachesText(result, structured) ==
    IF structured /\ result.success /\ result.data.t # "None"
    THEN Put(MCPExecutor_format_result(result), "structuredContent", result.data)
    ELSE MCPExecutor_format_result(result)

\* MCPExecutor.format_call_tool_result
MCPExecutor_format_call_tool_result(result, structured) ==
    LET response == MCPExecutor_format_result(result)
    IN  IF structured /\ result.success /\ result.data.t # "None"
        THEN IF result.data.t # "str"
             THEN Put(response, "structuredContent", result.data)
             ELSE response
        ELSE response

\* OpenAI format_result that JSON-encodes text data as well
OpenAIExecutor_format_result_EncodesText(result) ==
    IF result.success THEN JsonDumps(result.data)
    ELSE <<"Error: ">> \o FormatValue(result.error)

\* OpenAIExecutor.format_result
OpenAIExecutor_format_result(result) ==
    IF result.success
    THEN IF result.data.t = "str" THEN result.data.v ELSE JsonDumps(result.data)
    ELSE <<"Error: ">> \o FormatValue(result.error)

\* the tool_call_id values of a response message
CallIds == {"call_1", "call_2"}

\* OpenAIExecutor.format_tool_response
OpenAIExecutor_format_tool_response(tool_call_id, result) ==
    << <<"role", "tool">>,
       <<"tool_call_id", tool_call_id>>,
       <<"content", OpenAIExecutor_format_result(result)>> >>

\* ------------------------------------------------------------ introspection
\* Tool.set_handler: self._handler = handler; return self
set_handler(self, handler) == [self EXCEPT !._handler = handler]

\* inspect.Parameter.empty: the parameter has no default in the signature
Empty == [t |-> "empty"]
\* a default may be None itself
SigDefaults == {Empty} \cup DefaultValues
\* the annotation of a parameter: "-" when it has none, else the type it names
Annotations == {"-", "int"}

SigParam(n, k, d, a) == [name |-> n, kind |-> k, default |-> d, annotation |-> a]

NamedSigParams ==
    {SigParam(n, k, d, a) : n \in ParamNames,
                            k \in {"POSITIONAL_OR_KEYWORD", "KEYWORD_ONLY"},
                            d \in SigDefaults, a \in Annotations}
\* *args and **kwargs
VarPositional == SigParam("args", "VAR_POSITIONAL", Empty, "-")
VarKeyword == SigParam("kwargs", "VAR_KEYWORD", Empty, "-")

\* what a def accepts: names unique, positional parameters before keyword-only
\* ones, and no positional parameter without a default after one with a default
WellFormed(ps) ==
    \A i, j \in DOMAIN ps : i < j =>
        /\ ps[i].name # ps[j].name
        /\ ~(ps[i].kind = "KEYWORD_ONLY" /\ ps[j].kind = "POSITIONAL_OR_KEYWORD")
        /\ ~(/\ ps[i].kind = "POSITIONAL_OR_KEYWORD" /\ ps[j].kind = "POSITIONAL_OR_KEYWORD"
             /\ ps[i].default # Empty /\ ps[j].default = Empty)

OfKind(ps, k) == SelectSeq(ps, LAMBDA p : p.kind = k)

\* inspect.signature(func).parameters, in declaration order: positional
\* parameters, *args if any, keyword-only parameters, **kwargs if any
Signatures ==
    {OfKind(ps, "POSITIONAL_OR_KEYWORD") \o star \o OfKind(ps, "KEYWORD_ONLY") \o dstar :
        ps \in {qs \in SeqsUpTo(NamedSigParams, MaxParams) : WellFormed(qs)},
        star \in {<< >>, <<VarPositional>>},
        dstar \in {<< >>, <<VarKeyword>>}}

\* func.__doc__: None, or text as pieces, "\n" between its lines
Docs == {PyNone, PyStr(<<"Add.", "\n", "a: first">>)}

\* the functions offered to the builder; called, each returns its kwargs
Funcs ==
    {[bound |-> TRUE, mode |-> "sync", outcome |-> "echo", exc |-> "-", payload |-> PyNone,
      __name__ |-> "t1", __doc__ |-> doc, signature |-> sig] :
        doc \in Docs, sig \in Signatures}

\* type_map.get(python_type, ParameterType.STRING), for the plain types
python_type_to_param_type(python_type) ==
    CASE python_type = "str" -> "string"
      [] python_type = "int" -> "integer"
      [] python_type = "float" -> "number"
      [] python_type = "bool" -> "boolean"
      [] python_type = "list" -> "array"
      [] python_type = "dict" -> "object"
      [] OTHER -> "string"

\* func.__doc__.split("\n")
DocLines(doc) == SelectSeq(doc.v, LAMBDA piece : piece # "\n")
\* f":param {param_name}:" in line or f"{param_name}:" in line
Mentions(line, param_name) == line = "a: first" /\ param_name = "a"
\* line.split(":", 2)[-1].strip(), of a line that mentions a parameter
LastPart(line) == IF line = "a: first" THEN "first" ELSE line

\* the description of a parameter: from the first docstring line that mentions it
ParamDescription(func, param_name) ==
    LET doc_lines == IF TruthyText(func.__doc__) THEN DocLines(func.__doc__) ELSE << >>
        hits == SelectSeq(doc_lines, LAMBDA line : Mentions(line, param_name))
    IN  IF hits = << >> THEN <<"Parameter: ", param_name>> ELSE <<LastPart(Head(hits))>>

\* a default of None read as no default at all
BuiltParameter_NoneIsNoDefault(func, param) ==
    LET has_default == param.default \notin {Empty, PyNone}
    IN  [name |-> param.name,
         type |-> python_type_to_param_type(
                      IF param.annotation = "-" THEN "str" ELSE param.annotation),
         description |-> ParamDescription(func, param.name),
         required |-> ~has_default,
         default |-> IF has_default THEN param.default ELSE PyNone,
         enum |-> PyNone, items_type |-> PyNone]

\* the ToolParameter appended for one parameter of the signature
BuiltParameter(func, param) ==
    LET has_default == param.default # Empty
        default_value == IF has_default THEN param.default ELSE PyNone
    IN  [name |-> param.name,
         type |-> python_type_to_param_type(
                      IF param.annotation = "-" THEN "str" ELSE param.annotation),
         description |-> ParamDescription(func, param.name),
         required |-> ~has_default,
         default |-> IF has_default THEN default_value ELSE PyNone,
         enum |-> PyNone, items_type |-> PyNone]

\* the parameters the loop does not skip
Declared(signature) ==
    SelectSeq(signature, LAMBDA param : param.kind \notin {"VAR_POSITIONAL", "VAR_KEYWORD"})

\* tool_from_function(func, name, description, category, tags); text is a
\* sequence of pieces
tool_from_function(func, name, description, category, tags) ==
    LET declared == Declared(func.signature)
        parameters == [i \in DOMAIN declared |-> BuiltParameter(func, declared[i])]
        tool == Tool(IF Truthy(name) THEN name.v ELSE func.__name__,
                     IF TruthyText(description) THEN description.v
                     ELSE IF TruthyText(func.__doc__) THEN func.__doc__.v
                     ELSE <<"Function: ", func.__name__>>,
                     parameters,
                     category,
                     IF TruthyList(tags) THEN tags.v ELSE << >>,
                     NoHandler)
    IN  set_handler(tool, func)

\* the arguments the builder is called with
BuilderArgs ==
    [name : {PyNone, PyStr("t2")},
     description : {PyNone, PyStr(<<"desc">>)},
     category : {PyNone, PyStr("c1")},
     tags : {PyNone, PyList(<<"x">>)}]

\* --------------------------------------------------------- tool renderings
\* the tools offered to format_tool and set_handler
RenderTools ==
    {Tool("t1", "desc", ps, c, ts, h) :
        ps \in ParamLists, c \in {PyNone, PyStr("c1")}, ts \in {<< >>, <<"x">>},
        h \in Handlers \cup {NoHandler}}

\* the metadata tells whether a handler is bound
GenericExecutor_format_tool_ListsHandler(tool) ==
    << <<"name", tool.name>>,
       <<"description", tool.description>>,
       <<"parameters", to_json_schema(tool)>>,
       <<"metadata", << <<"category", tool.category>>,
                        <<"tags", tool.tags>>,
                        <<"version", tool.version>>,
                        <<"handler", tool._handler.bound>> >> >> >>

\* GenericExecutor.format_tool
GenericExecutor_format_tool(tool) ==
    << <<"name", tool.name>>,
       <<"description", tool.description>>,
       <<"parameters", to_json_schema(tool)>>,
       <<"metadata", << <<"category", tool.category>>,
                        <<"tags", tool.tags>>,
                        <<"version", tool.version>> >> >> >>

\* OpenAIExecutor.format_tool
OpenAIExecutor_format_tool(tool) ==
    << <<"type", "function">>,
       <<"function", << <<"name", tool.name>>,
                        <<"description", tool.description>>,
                        <<"parameters", to_json_schema(tool)>> >> >> >>

\* AnthropicExecutor.format_tool
AnthropicExecutor_format_tool(tool) ==
    << <<"name", tool.name>>,
       <<"description", tool.description>>,
       <<"input_schema", to_json_schema(tool)>> >>

\* MCPExecutor.format_tool
MCPExecutor_format_tool(tool) ==
    << <<"name", tool.name>>,
       <<"description", tool.description>>,
       <<"inputSchema", to_json_schema(tool)>> >>

\* executor.format_tool(tool)
format_tool(executor, tool) ==
    CASE executor = "generic" -> GenericExecutor_format_tool(tool)
      [] executor = "openai" -> OpenAIExecutor_format_tool(tool)
      [] executor = "anthropic" -> AnthropicExecutor_format_tool(tool)
      [] executor = "mcp" -> MCPExecutor_format_tool(tool)

\* -------------------------------------------------------- default registry
\* the identities a ToolRegistry object can have
InstanceIds == {"r1", "r2"}
\* a reference to the ToolRegistry object of identity id
Ref(id) == [t |-> "ToolRegistry", id |-> id]
\* the identity the next ToolRegistry() gets: any unused one; "-" when none is left
FreshIds(objects) ==
    IF InstanceIds \subseteq DOMAIN objects THEN {"-"} ELSE InstanceIds \ DOMAIN objects

\* every call makes a new ToolRegistry
get_default_registry_AlwaysNew(default, objects, fresh) ==
    [_default_registry |-> Ref(fresh),
     heap |-> DictSet(objects, fresh, EmptyRegistry),
     returned |-> Ref(fresh)]

\* get_default_registry(): the module global after the call, the objects after
\* it and the reference returned; fresh is the identity ToolRegistry() would get
get_default_registry(default, objects, fresh) ==
    IF default = PyNone
    THEN [_default_registry |-> Ref(fresh),
          heap |-> DictSet(objects, fresh, EmptyRegistry),
          returned |-> Ref(fresh)]
    ELSE [_default_registry |-> default, heap |-> objects, returned |-> default]

\* register_tool(tool): get_default_registry().register(tool); return tool
register_tool(default, objects, fresh, tool) ==
    LET got == get_default_registry(default, objects, fresh)
        done == register(got.heap[got.returned.id], tool)
    IN  [_default_registry |-> got._default_registry,
         heap |-> DictSet(got.heap, got.returned.id, done.reg),
         raised |-> done.raised,
         returned |-> IF done.raised THEN PyNone ELSE tool]

\* tool(name, description, category, tags)(func), the decorator: the Tool is
\* built, registered in the default registry and returned
tool_decorator(default, objects, fresh, args, func) ==
    LET t == tool_from_function(func, args.name, args.description, args.category,
                                IF TruthyList(args.tags) THEN args.tags ELSE PyList(<< >>))
    IN  register_tool(default, objects, fresh, t)

\* the arguments the decorator is called with
DecoratorArgs ==
    {[name |-> PyStr(n), description |-> PyStr(<<"desc">>), category |-> ct[1], tags |-> ct[2]] :
        n \in ToolNames, ct \in {<<PyNone, PyNone>>, <<PyStr("c1"), PyList(<<"x">>)>>}}

\* the functions decorated: def t1() and def t1(a, b=None)
DecoratedFuncs ==
    {func \in Funcs :
        /\ func.__doc__ = PyNone
        /\ func.signature \in
            {<< >>,
             <<SigParam("a", "POSITIONAL_OR_KEYWORD", Empty, "-"),
               SigParam("b", "POSITIONAL_OR_KEYWORD", PyNone, "-")>>}}

\* the tools handed to register_tool and to register
DefaultTools ==
    {Tool(n, <<"desc">>, << >>, ct[1], ct[2], NoHandler) :
        n \in ToolNames, ct \in {<<PyNone, << >> >>, <<PyStr("c2"), <<"y">> >>}}

\* ------------------------------------------------------ synchronous bridge
\* future.result(timeout=15) in _convert_currency_sync, seconds
CurrencyTimeout == 15
\* future.result(timeout=30) in _get_time_difference_sync, seconds
TimeDifferenceTimeout == 30

\* the synchronous wrappers modelled
Wrappers == {"_convert_currency_sync", "_get_time_difference_sync"}
Timeout(wrapper) ==
    IF wrapper = "_convert_currency_sync" THEN CurrencyTimeout ELSE TimeDifferenceTimeout

\* what the wrapper finds on the calling thread: a loop that is running, a loop
\* that is not, or none (asyncio.get_event_loop() raises RuntimeError)
LoopStates == {"running", "stopped", "none"}
\* how the asynchronous operation ends when it ends: with its dict or ValueError
Completions == {"data", "ValueError"}

\* ------------------------------------------------------------------- state
VARIABLES
    registry,   \* the ToolRegistry: _tools, _categories, _tags
    regCall,    \* the last completed registry call and how it ended
    call,       \* the execute call in progress: via, tool, arguments
    frame,      \* how that call stands
    fmt,        \* the rendering call just made: op, its inputs, its output
    writer,     \* a register / unregister call running step by step
    read,       \* the read a reader made since the writer's last step
    _default_registry,  \* the module global: None or a reference to a ToolRegistry
    heap,       \* the ToolRegistry objects made so far, by identity
    shortcut,   \* the call just made to a function of the registry module
    bridge      \* a call of a network tool's synchronous wrapper, and its worker

vars == <<registry, regCall, call, frame, fmt, writer, read,
          _default_registry, heap, shortcut, bridge>>

\* op: the method; name, category: the name and category of its argument;
\* raised: it ended in ValueError; returned: the Tool or None it returned
NoCall ==
    [op |-> "none", name |-> "", category |-> PyNone, tags |-> << >>,
     raised |-> FALSE, returned |-> PyNone]

\* no execute call in progress
Idle == Frame("idle", FALSE, << >>, NoPending, "-", PyNone, NoExc)
NoExecute == [via |-> "none", tool |-> PyNone, arguments |-> << >>]

\* no rendering call made; otherwise op is the method, tool / result / structured /
\* tool_call_id / func / args / executor its arguments and receiver (those it does
\* not take stay as here), out its value
NoFormat ==
    [op |-> "none", tool |-> PyNone, result |-> PyNone, structured |-> FALSE,
     tool_call_id |-> "", func |-> PyNone, args |-> PyNone, executor |-> "-",
     out |-> PyNone]

\* the writer between calls (also after a register that raised or an unregister
\* that found nothing); otherwise pc is the step it is about to make, tool the
\* tool it registers or has popped, i the index of the next tag
NoWriter == [pc |-> "idle", op |-> "none", tool |-> PyNone, i |-> 0]

\* no read made; otherwise op and arg are the call, names the index set(s) it
\* resolved, result what it returned
NoRead == [op |-> "none", arg |-> PyNone, names |-> {}, result |-> {}]

\* no call made; otherwise op is the function, args / func / tool its arguments
\* (those it does not take stay as here), raised whether it ended in ValueError,
\* returned what it returned
NoShortcut ==
    [op |-> "none", name |-> "", args |-> PyNone, func |-> PyNone, tool |-> PyNone,
     raised |-> FALSE, returned |-> PyNone]

\* no wrapper call in progress.  Otherwise wrapper is the wrapper called and loop
\* what it found on the calling thread; pc is where the caller stands: "result" in
\* future.result(timeout=...), "exit" leaving the with block (executor.shutdown),
\* "direct" running the coroutine itself, "done" released; clock counts the seconds
\* the caller has waited in future.result; worker is the worker thread, future the
\* state of the submitted call, outcome what the caller returns or raises
NoBridge ==
    [pc |-> "idle", wrapper |-> "-", loop |-> "-", clock |-> 0, worker |-> "none",
     future |-> "none", outcome |-> "-"]

Init ==
    /\ _default_registry = PyNone
    /\ heap = << >>
    /\ shortcut = NoShortcut
    /\ bridge = NoBridge
    /\ registry = EmptyRegistry
    /\ regCall = NoCall
    /\ call = NoExecute
    /\ frame = Idle
    /\ fmt = NoFormat
    /\ writer = NoWriter
    /\ read = NoRead

\* registry.register(tool), whole call
Register(tool) ==
    LET r == register(registry, tool)
    IN  /\ registry' = r.reg
        /\ regCall' = [op |-> "register", name |-> tool.name, category |-> tool.category,
                       tags |-> IF r.raised THEN << >> ELSE tool.tags,
                       raised |-> r.raised, returned |-> PyNone]
        /\ UNCHANGED <<call, frame, fmt, writer, read, _default_registry, heap, shortcut, bridge>>

\* registry.unregister(name), whole call
Unregister(name) ==
    LET r == unregister(registry, name)
    IN  /\ registry' = r.reg
        /\ regCall' = [op |-> "unregister", name |-> name, category |-> PyNone,
                       tags |-> << >>, raised |-> FALSE, returned |-> r.tool]
        /\ UNCHANGED <<call, frame, fmt, writer, read, _default_registry, heap, shortcut, bridge>>

NextRegistry ==
    \/ \E tool \in RegTools : Register(tool)
    \/ \E name \in ToolNames : Unregister(name)

SpecRegistry == Init /\ [][NextRegistry]_vars

\* await tool.execute(**arguments), called directly
ToolExecute ==
    /\ frame.pc = "idle"
    /\ \E tool \in ExecTools, arguments \in ArgDicts :
        /\ call' = [via |-> "direct", tool |-> tool, arguments |-> arguments]
        /\ frame' = Tool_execute(tool, arguments)
    /\ UNCHANGED <<registry, regCall, fmt, writer, read, _default_registry, heap, shortcut, bridge>>

\* await GenericExecutor().execute(tool, arguments)
GenericExecute ==
    /\ frame.pc = "idle"
    /\ \E tool \in ExecTools, arguments \in ArgDicts :
        /\ call' = [via |-> "generic", tool |-> tool, arguments |-> arguments]
        /\ frame' = GenericExecutor_execute(tool, arguments)
    /\ UNCHANGED <<registry, regCall, fmt, writer, read, _default_registry, heap, shortcut, bridge>>

\* await OpenAIExecutor().execute(tool, arguments)
OpenAIExecute ==
    /\ frame.pc = "idle"
    /\ \E tool \in ExecTools, arguments \in ArgDicts :
        /\ call' = [via |-> "openai", tool |-> tool, arguments |-> arguments]
        /\ frame' = OpenAIExecutor_execute(tool, arguments)
    /\ UNCHANGED <<registry, regCall, fmt, writer, read, _default_registry, heap, shortcut, bridge>>

\* await AnthropicExecutor().execute(tool, arguments)
AnthropicExecute ==
    /\ frame.pc = "idle"
    /\ \E tool \in ExecTools, arguments \in ArgDicts :
        /\ call' = [via |-> "anthropic", tool |-> tool, arguments |-> arguments]
        /\ frame' = AnthropicExecutor_execute(tool, arguments)
    /\ UNCHANGED <<registry, regCall, fmt, writer, read, _default_registry, heap, shortcut, bridge>>

\* await MCPExecutor().execute(tool, arguments)
MCPExecute ==
    /\ frame.pc = "idle"
    /\ \E tool \in ExecTools, arguments \in ArgDicts :
        /\ call' = [via |-> "mcp", tool |-> tool, arguments |-> arguments]
        /\ frame' = MCPExecutor_execute(tool, arguments)
    /\ UNCHANGED <<registry, regCall, fmt, writer, read, _default_registry, heap, shortcut, bridge>>

\* the awaited handler result arrives; an executor hands Tool.execute's outcome on
Resume ==
    /\ frame.pc = "awaiting"
    /\ frame' = Tool_execute_resume(frame)
    /\ UNCHANGED <<registry, regCall, call, fmt, writer, read, _default_registry, heap, shortcut, bridge>>

\* the caller has the outcome; the next call starts afresh
Return ==
    /\ frame.pc = "done"
    /\ frame' = Idle
    /\ call' = NoExecute
    /\ UNCHANGED <<registry, regCall, fmt, writer, read, _default_registry, heap, shortcut, bridge>>

NextExecute ==
    \/ ToolExecute
    \/ GenericExecute
    \/ OpenAIExecute
    \/ AnthropicExecute
    \/ MCPExecute
    \/ Resume
    \/ Return

SpecExecute == Init /\ [][NextExecute]_vars

\* tool.to_json_schema()
ToJsonSchema ==
    /\ fmt.op = "none"
    /\ \E tool \in SchemaTools \cup RenderTools :
        fmt' = [NoFormat EXCEPT !.op = "to_json_schema", !.tool = tool,
                                !.out = to_json_schema(tool)]
    /\ UNCHANGED <<registry, regCall, call, frame, writer, read, _default_registry, heap, shortcut, bridge>>

\* MCPExecutor().format_result(result)
MCPFormatResult ==
    /\ fmt.op = "none"
    /\ \E result \in Results :
        fmt' = [NoFormat EXCEPT !.op = "mcp.format_result", !.result = result,
                                !.out = MCPExecutor_format_result(result)]
    /\ UNCHANGED <<registry, regCall, call, frame, writer, read, _default_registry, heap, shortcut, bridge>>

\* MCPExecutor().format_call_tool_result(result, structured)
MCPFormatCallToolResult ==
    /\ fmt.op = "none"
    /\ \E result \in Results, structured \in BOOLEAN :
        fmt' = [NoFormat EXCEPT !.op = "mcp.format_call_tool_result",
                                !.result = result, !.structured = structured,
                                !.out = MCPExecutor_format_call_tool_result(result, structured)]
    /\ UNCHANGED <<registry, regCall, call, frame, writer, read, _default_registry, heap, shortcut, bridge>>

\* OpenAIExecutor().format_result(result)
OpenAIFormatResult ==
    /\ fmt.op = "none"
    /\ \E result \in Results :
        fmt' = [NoFormat EXCEPT !.op = "openai.format_result", !.result = result,
                                !.out = OpenAIExecutor_format_result(result)]
    /\ UNCHANGED <<registry, regCall, call, frame, writer, read, _default_registry, heap, shortcut, bridge>>

\* OpenAIExecutor().format_tool_response(tool_call_id, result)
OpenAIFormatToolResponse ==
    /\ fmt.op = "none"
    /\ \E tool_call_id \in CallIds, result \in Results :
        fmt' = [NoFormat EXCEPT !.op = "openai.format_tool_response",
                                !.result = result, !.tool_call_id = tool_call_id,
                                !.out = OpenAIExecutor_format_tool_response(tool_call_id, result)]
    /\ UNCHANGED <<registry, regCall, call, frame, writer, read, _default_registry, heap, shortcut, bridge>>

\* tool_from_function(func, name=..., description=..., category=..., tags=...)
ToolFromFunction ==
    /\ fmt.op = "none"
    /\ \E func \in Funcs, args \in BuilderArgs :
        fmt' = [NoFormat EXCEPT !.op = "tool_from_function", !.func = func, !.args = args,
                                !.out = tool_from_function(func, args.name, args.description,
                                                           args.category, args.tags)]
    /\ UNCHANGED <<registry, regCall, call, frame, writer, read, _default_registry, heap, shortcut, bridge>>

\* tool.set_handler(handler)
SetHandler ==
    /\ fmt.op = "none"
    /\ \E tool \in RenderTools, handler \in Handlers :
        fmt' = [NoFormat EXCEPT !.op = "set_handler", !.tool = tool, !.func = handler,
                                !.out = set_handler(tool, handler)]
    /\ UNCHANGED <<registry, regCall, call, frame, writer, read, _default_registry, heap, shortcut, bridge>>

\* executor.format_tool(tool), for each of the four executors
FormatTool ==
    /\ fmt.op = "none"
    /\ \E executor \in Executors, tool \in RenderTools :
        fmt' = [NoFormat EXCEPT !.op = "format_tool", !.executor = executor, !.tool = tool,
                                !.out = format_tool(executor, tool)]
    /\ UNCHANGED <<registry, regCall, call, frame, writer, read, _default_registry, heap, shortcut, bridge>>

\* the caller takes the rendered value; the next rendering call can be made
FormatReturn ==
    /\ fmt.op # "none"
    /\ fmt' = NoFormat
    /\ UNCHANGED <<registry, regCall, call, frame, writer, read, _default_registry, heap, shortcut, bridge>>

NextFormat ==
    \/ ToJsonSchema
    \/ MCPFormatResult
    \/ MCPFormatCallToolResult
    \/ OpenAIFormatResult
    \/ OpenAIFormatToolResponse
    \/ ToolFromFunction
    \/ SetHandler
    \/ FormatTool
    \/ FormatReturn

SpecFormat == Init /\ [][NextFormat]_vars

\* ------------------------------------------------------- lookup arguments
\* the category and tag keys lookups are made with
CategoryKeys == {"c1", "c2", "c9", ""}
TagKeys == TagNames \cup {"w"}
\* the tag lists get_by_tags is called with
QueryTagLists == SeqsUpTo(TagKeys, 2)
\* the tag lists the concurrent reader asks for
ReadTagLists == {<<"x">>, <<"x", "y">>, <<"y", "w">>}

\* --------------------------------------- one writer, step by step, and a reader
\* register(tool), first step: the duplicate check and self._tools[tool.name] = tool
RegisterStart(tool) ==
    /\ writer.pc = "idle"
    /\ IF tool.name \in DOMAIN registry._tools
       THEN /\ writer' = NoWriter
            /\ registry' = registry
       ELSE /\ writer' = [pc |-> "category", op |-> "register", tool |-> tool, i |-> 1]
            /\ registry' = [registry EXCEPT
                                !._tools = DictSet(registry._tools, tool.name, tool)]
    /\ read' = NoRead
    /\ UNCHANGED <<regCall, call, frame, fmt, _default_registry, heap, shortcut, bridge>>

\* register, second step: the category index
RegisterCategory ==
    /\ writer.pc = "category" /\ writer.op = "register"
    /\ registry' = [registry EXCEPT
                        !._categories =
                            IF Truthy(writer.tool.category)
                            THEN IndexAdd(registry._categories, writer.tool.category.v,
                                          writer.tool.name)
                            ELSE registry._categories]
    /\ writer' = [writer EXCEPT !.pc = "tags"]
    /\ read' = NoRead
    /\ UNCHANGED <<regCall, call, frame, fmt, _default_registry, heap, shortcut, bridge>>

\* register, one turn of `for tag in tool.tags`
RegisterTag ==
    /\ writer.pc = "tags" /\ writer.op = "register"
    /\ writer.i <= Len(writer.tool.tags)
    /\ registry' = [registry EXCEPT
                        !._tags = IndexAdd(registry._tags, writer.tool.tags[writer.i],
                                           writer.tool.name)]
    /\ writer' = [writer EXCEPT !.i = writer.i + 1]
    /\ read' = NoRead
    /\ UNCHANGED <<regCall, call, frame, fmt, _default_registry, heap, shortcut, bridge>>

\* unregister(name), first step: tool = self._tools.pop(name, None)
UnregisterStart(name) ==
    /\ writer.pc = "idle"
    /\ IF name \notin DOMAIN registry._tools
       THEN /\ writer' = NoWriter
            /\ registry' = registry
       ELSE /\ writer' = [pc |-> "category", op |-> "unregister",
                          tool |-> registry._tools[name], i |-> 1]
            /\ registry' = [registry EXCEPT !._tools = DictDel(registry._tools, name)]
    /\ read' = NoRead
    /\ UNCHANGED <<regCall, call, frame, fmt, _default_registry, heap, shortcut, bridge>>

\* unregister, second step: the category index
UnregisterCategory ==
    /\ writer.pc = "category" /\ writer.op = "unregister"
    /\ registry' = [registry EXCEPT
                        !._categories =
                            IF Truthy(writer.tool.category)
                            THEN IndexDiscard(registry._categories, writer.tool.category.v,
                                              writer.tool.name)
                            ELSE registry._categories]
    /\ writer' = [writer EXCEPT !.pc = "tags"]
    /\ read' = NoRead
    /\ UNCHANGED <<regCall, call, frame, fmt, _default_registry, heap, shortcut, bridge>>

\* unregister, one turn of `for tag in tool.tags`
UnregisterTag ==
    /\ writer.pc = "tags" /\ writer.op = "unregister"
    /\ writer.i <= Len(writer.tool.tags)
    /\ registry' = [registry EXCEPT
                        !._tags = IndexDiscard(registry._tags, writer.tool.tags[writer.i],
                                               writer.tool.name)]
    /\ writer' = [writer EXCEPT !.i = writer.i + 1]
    /\ read' = NoRead
    /\ UNCHANGED <<regCall, call, frame, fmt, _default_registry, heap, shortcut, bridge>>

\* the writer's call returns after the last tag
WriterReturn ==
    /\ writer.pc = "tags"
    /\ writer.i > Len(writer.tool.tags)
    /\ writer' = NoWriter
    /\ read' = NoRead
    /\ UNCHANGED <<registry, regCall, call, frame, fmt, _default_registry, heap, shortcut, bridge>>

\* the reader runs get_by_category(category) between two steps of the writer
ReadByCategory ==
    /\ read.op = "none"
    /\ \E category \in CategoryKeys :
        read' = [op |-> "get_by_category", arg |-> category,
                 names |-> IndexGet(registry._categories, category),
                 result |-> get_by_category(registry, category)]
    /\ UNCHANGED <<registry, regCall, call, frame, fmt, writer, _default_registry, heap, shortcut, bridge>>

\* the reader runs get_by_tag(tag)
ReadByTag ==
    /\ read.op = "none"
    /\ \E tag \in TagKeys :
        read' = [op |-> "get_by_tag", arg |-> tag,
                 names |-> IndexGet(registry._tags, tag),
                 result |-> get_by_tag(registry, tag)]
    /\ UNCHANGED <<registry, regCall, call, frame, fmt, writer, _default_registry, heap, shortcut, bridge>>

\* the reader runs get_by_tags(tags, match_all)
ReadByTags ==
    /\ read.op = "none"
    /\ \E tags \in ReadTagLists, match_all \in BOOLEAN :
        read' = [op |-> "get_by_tags", arg |-> <<tags, match_all>>,
                 names |-> SetUnion(TagSets(registry, tags)),
                 result |-> get_by_tags(registry, tags, match_all)]
    /\ UNCHANGED <<registry, regCall, call, frame, fmt, writer, _default_registry, heap, shortcut, bridge>>

NextSteps ==
    \/ \E tool \in RegTools : RegisterStart(tool)
    \/ RegisterCategory
    \/ RegisterTag
    \/ \E name \in ToolNames : UnregisterStart(name)
    \/ UnregisterCategory
    \/ UnregisterTag
    \/ WriterReturn
    \/ ReadByCategory
    \/ ReadByTag
    \/ ReadByTags

SpecSteps == Init /\ [][NextSteps]_vars

\* ------------------------------------------------- default registry, calls
\* get_default_registry()
GetDefaultRegistry ==
    /\ shortcut.op = "none"
    /\ \E fresh \in FreshIds(heap) :
        /\ _default_registry = PyNone => fresh # "-"
        /\ LET got == get_default_registry(_default_registry, heap, fresh)
           IN  /\ _default_registry' = got._default_registry
               /\ heap' = got.heap
               /\ shortcut' = [NoShortcut EXCEPT !.op = "get_default_registry",
                                                 !.returned = got.returned]
    /\ UNCHANGED <<registry, regCall, call, frame, fmt, writer, read, bridge>>

\* register_tool(tool)
RegisterTool ==
    /\ shortcut.op = "none"
    /\ \E fresh \in FreshIds(heap), tool \in DefaultTools :
        /\ _default_registry = PyNone => fresh # "-"
        /\ LET done == register_tool(_default_registry, heap, fresh, tool)
           IN  /\ _default_registry' = done._default_registry
               /\ heap' = done.heap
               /\ shortcut' = [NoShortcut EXCEPT !.op = "register_tool",
                                                 !.name = tool.name, !.tool = tool,
                                                 !.raised = done.raised,
                                                 !.returned = done.returned]
    /\ UNCHANGED <<registry, regCall, call, frame, fmt, writer, read, bridge>>

\* @tool(name, description, category=..., tags=...) applied to func
Decorate ==
    /\ shortcut.op = "none"
    /\ \E fresh \in FreshIds(heap), args \in DecoratorArgs, func \in DecoratedFuncs :
        /\ _default_registry = PyNone => fresh # "-"
        /\ LET done == tool_decorator(_default_registry, heap, fresh, args, func)
           IN  /\ _default_registry' = done._default_registry
               /\ heap' = done.heap
               /\ shortcut' = [NoShortcut EXCEPT !.op = "tool",
                                                 !.name = args.name.v, !.args = args,
                                                 !.func = func,
                                                 !.raised = done.raised,
                                                 !.returned = done.returned]
    /\ UNCHANGED <<registry, regCall, call, frame, fmt, writer, read, bridge>>

\* ToolRegistry(), made by the application for itself
NewRegistry ==
    /\ shortcut.op = "none"
    /\ \E fresh \in FreshIds(heap) :
        /\ fresh # "-"
        /\ heap' = DictSet(heap, fresh, EmptyRegistry)
    /\ UNCHANGED <<registry, regCall, call, frame, fmt, writer, read,
                   _default_registry, shortcut, bridge>>

\* r.register(tool) through a reference to any ToolRegistry object, the one
\* get_default_registry returned included; a duplicate name raises
RegisterDirect ==
    /\ shortcut.op = "none"
    /\ \E id \in DOMAIN heap, tool \in DefaultTools :
        heap' = DictSet(heap, id, register(heap[id], tool).reg)
    /\ UNCHANGED <<registry, regCall, call, frame, fmt, writer, read,
                   _default_registry, shortcut, bridge>>

\* the caller takes what the call returned or raised
ShortcutReturn ==
    /\ shortcut.op # "none"
    /\ shortcut' = NoShortcut
    /\ UNCHANGED <<registry, regCall, call, frame, fmt, writer, read,
                   _default_registry, heap, bridge>>

NextDefault ==
    \/ GetDefaultRegistry
    \/ RegisterTool
    \/ Decorate
    \/ NewRegistry
    \/ RegisterDirect
    \/ ShortcutReturn

SpecDefault == Init /\ [][NextDefault]_vars

\* ------------------------------------------------ synchronous bridge, steps
\* the wrapper is called.  With a running loop: the coroutine is submitted to a
\* new ThreadPoolExecutor, whose worker thread runs asyncio.run on it, and the
\* caller enters future.result(timeout=...).  Otherwise the caller runs the
\* coroutine itself (loop.run_until_complete, or asyncio.run after RuntimeError).
BridgeCall ==
    /\ bridge.pc = "idle"
    /\ \E wrapper \in Wrappers, loop \in LoopStates :
        bridge' = IF loop = "running"
                  THEN [NoBridge EXCEPT !.pc = "result", !.wrapper = wrapper, !.loop = loop,
                                        !.worker = "running", !.future = "pending"]
                  ELSE [NoBridge EXCEPT !.pc = "direct", !.wrapper = wrapper, !.loop = loop]
    /\ UNCHANGED <<registry, regCall, call, frame, fmt, writer, read,
                   _default_registry, heap, shortcut>>

\* the asynchronous operation ends on the worker thread: the future is set and
\* the worker thread finishes
WorkerCompletes ==
    /\ bridge.worker = "running"
    /\ \E how \in Completions :
        bridge' = [bridge EXCEPT !.worker = "finished", !.future = how]
    /\ UNCHANGED <<registry, regCall, call, frame, fmt, writer, read,
                   _default_registry, heap, shortcut>>

\* the asynchronous operation ends on the calling thread
DirectCompletes ==
    /\ bridge.pc = "direct"
    /\ \E how \in Completions :
        bridge' = [bridge EXCEPT !.pc = "done", !.outcome = how]
    /\ UNCHANGED <<registry, regCall, call, frame, fmt, writer, read,
                   _default_registry, heap, shortcut>>

\* a second passes while the caller waits in future.result
Tick ==
    /\ bridge.pc = "result"
    /\ bridge.future = "pending"
    /\ bridge.clock < Timeout(bridge.wrapper)
    /\ bridge' = [bridge EXCEPT !.clock = @ + 1]
    /\ UNCHANGED <<registry, regCall, call, frame, fmt, writer, read,
                   _default_registry, heap, shortcut>>

\* future.result returns the value or raises the operation's exception: the
\* caller leaves the with block
ResultReady ==
    /\ bridge.pc = "result"
    /\ bridge.future # "pending"
    /\ bridge' = [bridge EXCEPT !.pc = "exit", !.outcome = bridge.future]
    /\ UNCHANGED <<registry, regCall, call, frame, fmt, writer, read,
                   _default_registry, heap, shortcut>>

\* the timeout has passed with the future still pending: future.result raises
\* TimeoutError, and the caller leaves the with block
ResultTimeout ==
    /\ bridge.pc = "result"
    /\ bridge.future = "pending"
    /\ bridge.clock = Timeout(bridge.wrapper)
    /\ bridge' = [bridge EXCEPT !.pc = "exit", !.outcome = "TimeoutError"]
    /\ UNCHANGED <<registry, regCall, call, frame, fmt, writer, read,
                   _default_registry, heap, shortcut>>

\* ThreadPoolExecutor.__exit__ is shutdown(wait=True): it joins the worker
\* thread, and only then does the value or the exception reach the wrapper's
\* caller (neither ValueError nor TimeoutError is a RuntimeError)
ExecutorExit ==
    /\ bridge.pc = "exit"
    /\ bridge.worker = "finished"
    /\ bridge' = [bridge EXCEPT !.pc = "done"]
    /\ UNCHANGED <<registry, regCall, call, frame, fmt, writer, read,
                   _default_registry, heap, shortcut>>

\* the wrapper's caller goes on
BridgeReturn ==
    /\ bridge.pc = "done"
    /\ bridge' = NoBridge
    /\ UNCHANGED <<registry, regCall, call, frame, fmt, writer, read,
                   _default_registry, heap, shortcut>>

NextBridge ==
    \/ BridgeCall
    \/ WorkerCompletes
    \/ DirectCompletes
    \/ Tick
    \/ ResultReady
    \/ ResultTimeout
    \/ ExecutorExit
    \/ BridgeReturn

SpecBridge == Init /\ [][NextBridge]_vars

\* time passes and the calling thread takes every step it can take; when the
\* asynchronous operation ends is up to the network
FairBridge ==
    /\ SpecBridge
    /\ WF_vars(Tick)
    /\ WF_vars(ResultReady)
    /\ WF_vars(ResultTimeout)
    /\ WF_vars(ExecutorExit)
    /\ WF_vars(BridgeReturn)

\* ------------------------------------------------------------------ claims

\* C1: after any sequence of completed register and unregister calls, every name
\* in a category index set or a tag index set is a key of the primary mapping.
C1_IndexNamesRegistered ==
    /\ \A c \in DOMAIN registry._categories :
           registry._categories[c] \subseteq DOMAIN registry._tools
    /\ \A t \in DOMAIN registry._tags :
           registry._tags[t] \subseteq DOMAIN registry._tools

\* C1 witness: an unregister removed a tagged, categorised tool (its index sets are
\* now empty) while another tool is still indexed under a category and a tag.
C1_Witness ==
    /\ regCall.op = "unregister" /\ regCall.returned # PyNone
    /\ Truthy(regCall.returned.category) /\ regCall.returned.tags # << >>
    /\ \E c \in DOMAIN registry._categories : registry._categories[c] # {}
    /\ \E t \in DOMAIN registry._tags : registry._tags[t] # {}
    /\ \E t \in DOMAIN registry._tags : registry._tags[t] = {}

\* C2: register(tool) with a name already registered raises and leaves the primary
\* mapping (the name still maps to the first tool) and both indices unchanged,
\* whatever the category and tags of the second tool.
C2_DuplicateRegisterUnchanged ==
    [][(regCall'.op = "register" /\ regCall'.name \in DOMAIN registry._tools)
          => /\ regCall'.raised
             /\ registry'._tools[regCall'.name] = registry._tools[regCall'.name]
             /\ registry'._tools = registry._tools
             /\ registry'._categories = registry._categories
             /\ registry'._tags = registry._tags]_vars

\* C2 witness: a register call raised for a tool whose category differs from the
\* category of the tool registered under that name.
C2_Witness ==
    /\ regCall.op = "register" /\ regCall.raised
    /\ regCall.name \in DOMAIN registry._tools
    /\ registry._tools[regCall.name].category # regCall.category
    /\ Truthy(regCall.category)

\* ------------------------------------------- the call a state is about
\* indices of the declared parameters that are required and absent from the call's
\* arguments
RequiredAbsent ==
    {i \in DOMAIN call.tool.parameters :
        /\ call.tool.parameters[i].required
        /\ call.tool.parameters[i].name \notin Keys(call.arguments)}
\* ... those of them that carry a default, and those that carry none
AbsentWithDefault == {i \in RequiredAbsent : call.tool.parameters[i].default # PyNone}
AbsentNoDefault == {i \in RequiredAbsent : call.tool.parameters[i].default = PyNone}
\* argument keys that are no declared parameter name
UndeclaredKeys ==
    Keys(call.arguments) \ {call.tool.parameters[i].name : i \in DOMAIN call.tool.parameters}
\* a finished direct call of Tool.execute on a tool with a bound handler
DirectDone == call.via = "direct" /\ frame.pc = "done" /\ call.tool._handler.bound
\* a finished call of one of the four executors
ExecutorDone == call.via \in Executors /\ frame.pc = "done"
\* the exception the call's handler raises
HandlerExc == [cls |-> call.tool._handler.exc, msg |-> call.tool._handler.payload.v]

\* C3 as stated: with a bound handler Tool.execute always returns a Result, and a
\* handler exception of any kind, raised in the call or while awaited, comes back
\* as fail(str(exception)).
C3_AnyExceptionCaught ==
    DirectDone =>
        /\ frame.kind = "returned"
        /\ (frame.invoked /\ call.tool._handler.outcome = "raise")
               => frame.result = [success |-> FALSE, data |-> PyNone,
                                  error |-> PyStr(StrOfException(HandlerExc))]

\* C3 amended: with a bound handler, a handler exception that is an instance of
\* Exception, raised in the call or while awaited, comes back as
\* fail(str(exception)); Tool.execute lets an exception out only when the handler
\* raised one that derives from BaseException alone, and then it is that exception.
C3_ExceptionCaught ==
    DirectDone =>
        /\ (frame.invoked /\ call.tool._handler.outcome = "raise"
                /\ call.tool._handler.exc \in {"ValueError", "KeyError"})
               => /\ frame.kind = "returned"
                  /\ frame.result =
                         [success |-> FALSE, data |-> PyNone,
                          error |-> PyStr(IF HandlerExc.cls = "KeyError"
                                          THEN <<"'", HandlerExc.msg, "'">>
                                          ELSE <<HandlerExc.msg>>)]
        /\ frame.kind = "raised"
               => /\ frame.invoked /\ call.tool._handler.outcome = "raise"
                  /\ call.tool._handler.exc = "KeyboardInterrupt"
                  /\ frame.exc = HandlerExc
        /\ frame.kind \in {"returned", "raised"}

\* C3 witness: an awaited handler raised KeyError and the call returned the failure.
C3_Witness ==
    /\ DirectDone /\ frame.invoked
    /\ call.tool._handler.mode = "async" /\ call.tool._handler.exc = "KeyError"
    /\ frame.kind = "returned" /\ ~frame.result.success

\* C4: an executor's execute with an argument key that is no declared parameter
\* returns a failed Result whose error contains "Unknown parameter: <key>", and
\* the handler is not invoked during the call.
C4_UnknownParameterRejected ==
    (call.via \in Executors /\ UndeclaredKeys # {}) =>
        /\ frame.pc = "done" /\ frame.kind = "returned"
        /\ ~frame.result.success
        /\ \A k \in UndeclaredKeys :
               Contains(frame.result.error.v, <<"Unknown parameter: ", k>>)
        /\ ~frame.invoked

\* C4 witness: a call through the MCP executor with the undeclared key z, every
\* required parameter supplied and a handler bound, ended in the failure.
C4_Witness ==
    /\ call.via = "mcp" /\ frame.pc = "done"
    /\ call.tool._handler.bound
    /\ UndeclaredKeys = {"z"} /\ RequiredAbsent = {}
    /\ call.tool.parameters # << >>
    /\ ~frame.result.success

\* what the call's handler returns, given that it received the supplied arguments
\* and the defaults of the required parameters that were absent
ExpectedReceived ==
    [k \in Keys(call.arguments)
           \cup {call.tool.parameters[i].name : i \in RequiredAbsent} |->
        IF k \in Keys(call.arguments) THEN Get(call.arguments, k)
        ELSE call.tool.parameters[
                 CHOOSE i \in RequiredAbsent : call.tool.parameters[i].name = k].default]
ExpectedValue ==
    IF call.tool._handler.outcome = "echo"
    THEN [t |-> "dict", v |-> ExpectedReceived]
    ELSE call.tool._handler.payload
HandlerReturns == call.tool._handler.outcome \in {"return", "echo"}

\* C5 as stated: with a bound handler and a required parameter that carries a
\* default and is omitted, an executor returns a failure containing "Missing
\* required parameter: <name>" without invoking the handler, whereas Tool.execute
\* with the same arguments injects the default, invokes the handler and returns
\* its outcome.
C5_StrictVersusLenient ==
    (frame.pc = "done" /\ call.tool._handler.bound /\ AbsentWithDefault # {}) =>
        /\ call.via \in Executors =>
               /\ frame.kind = "returned" /\ ~frame.result.success
               /\ \A i \in AbsentWithDefault :
                      Contains(frame.result.error.v,
                               <<"Missing required parameter: ", call.tool.parameters[i].name>>)
               /\ ~frame.invoked
        /\ call.via = "direct" =>
               /\ frame.invoked
               /\ \A i \in AbsentWithDefault :
                      /\ Has(frame.received, call.tool.parameters[i].name)
                      /\ Get(frame.received, call.tool.parameters[i].name)
                             = call.tool.parameters[i].default
               /\ HandlerReturns => (frame.kind = "returned" /\ frame.result = ok(ExpectedValue))

\* C5 amended: the executor half as stated; Tool.execute with the same arguments
\* injects the default, invokes the handler and returns its outcome provided no
\* required parameter without a default is absent as well (if one is, Tool.execute
\* returns the missing-parameter failure for it and does not invoke the handler).
C5_StrictVersusLenientAmended ==
    (frame.pc = "done" /\ call.tool._handler.bound /\ AbsentWithDefault # {}) =>
        /\ call.via \in Executors =>
               /\ frame.kind = "returned" /\ ~frame.result.success
               /\ \A i \in AbsentWithDefault :
                      Contains(frame.result.error.v,
                               <<"Missing required parameter: ", call.tool.parameters[i].name>>)
               /\ ~frame.invoked
        /\ (call.via = "direct" /\ AbsentNoDefault = {}) =>
               /\ frame.invoked
               /\ \A i \in AbsentWithDefault :
                      /\ Has(frame.received, call.tool.parameters[i].name)
                      /\ Get(frame.received, call.tool.parameters[i].name)
                             = call.tool.parameters[i].default
               /\ HandlerReturns => (frame.kind = "returned" /\ frame.result = ok(ExpectedValue))
        /\ (call.via = "direct" /\ AbsentNoDefault # {}) =>
               (~frame.invoked /\ frame.kind = "returned" /\ ~frame.result.success)

\* C5 witness: a direct call that omitted a required parameter with the default 0
\* ended with the handler invoked on that default and its value returned.
C5_Witness ==
    /\ DirectDone /\ AbsentWithDefault # {} /\ frame.invoked
    /\ call.tool._handler.outcome = "echo"
    /\ frame.kind = "returned" /\ frame.result.success

\* Tool.execute run to its end on the call's tool and arguments
DirectRun ==
    LET f == Tool_execute(call.tool, call.arguments)
    IN  IF f.pc = "awaiting" THEN Tool_execute_resume(f) ELSE f

\* C6: when every required parameter is present and no key is undeclared, each of
\* the four executors' execute ends exactly as Tool.execute ends on the same
\* arguments (the same Result, or the same exception), so the four agree.
C6_ExecutorsDelegate ==
    (ExecutorDone /\ RequiredAbsent = {} /\ UndeclaredKeys = {}) =>
        /\ frame.kind = DirectRun.kind
        /\ frame.result = DirectRun.result
        /\ frame.exc = DirectRun.exc
        /\ frame.invoked = DirectRun.invoked
        /\ call.tool._handler.bound => frame.invoked
        /\ (call.tool._handler.bound /\ HandlerReturns) => frame.result = ok(ExpectedValue)

\* C6 witness: a call through the OpenAI executor with two declared arguments
\* ended with the value of an awaited handler.
C6_Witness ==
    /\ ExecutorDone /\ call.via = "openai"
    /\ RequiredAbsent = {} /\ UndeclaredKeys = {}
    /\ Len(call.arguments) = 2 /\ call.tool._handler.mode = "async"
    /\ call.tool._handler.outcome = "echo"
    /\ frame.result.success

\* C7: with a bound handler, when some parameter is required, has no default and
\* is absent, Tool.execute returns fail("Missing required parameter: <name>") for
\* the first such parameter in declaration order and does not invoke the handler.
C7_FirstMissingReported ==
    (DirectDone /\ AbsentNoDefault # {}) =>
        LET first == CHOOSE i \in AbsentNoDefault : \A j \in AbsentNoDefault : i <= j
        IN  /\ frame.kind = "returned"
            /\ frame.result =
                   [success |-> FALSE, data |-> PyNone,
                    error |-> PyStr(<<"Missing required parameter: ",
                                      call.tool.parameters[first].name>>)]
            /\ ~frame.invoked

\* C7 witness: two required parameters without default were absent.
C7_Witness ==
    /\ DirectDone /\ Cardinality(AbsentNoDefault) = 2
    /\ frame.kind = "returned" /\ ~frame.result.success

\* C8: without a handler Tool.execute returns fail("No handler set for tool
\* '<name>'") for every argument map, also when required parameters are missing.
C8_NoHandler ==
    (call.via = "direct" /\ ~call.tool._handler.bound) =>
        /\ frame.pc = "done" /\ frame.kind = "returned"
        /\ frame.result =
               [success |-> FALSE, data |-> PyNone,
                error |-> PyStr(<<"No handler set for tool '", call.tool.name, "'">>)]
        /\ ~frame.invoked

\* C8 witness: a direct call on a tool without handler, a required parameter
\* without default absent.
C8_Witness ==
    /\ call.via = "direct" /\ ~call.tool._handler.bound
    /\ frame.pc = "done" /\ AbsentNoDefault # {}

\* C9: with a bound handler and every required parameter without default
\* supplied, Tool.execute returns Result{success: true, data: v}, v the value the
\* handler returns or the value its awaited computation completes with.
C9_SuccessCarriesValue ==
    (DirectDone /\ AbsentNoDefault = {} /\ HandlerReturns) =>
        /\ frame.kind = "returned"
        /\ frame.result = [success |-> TRUE, data |-> ExpectedValue, error |-> PyNone]

\* C9 witness: a direct call of an async handler ended with the value it
\* completed with.
C9_Witness ==
    /\ DirectDone /\ AbsentNoDefault = {} /\ call.arguments # << >>
    /\ call.tool._handler.mode = "async" /\ call.tool._handler.outcome = "echo"
    /\ frame.result.success /\ frame.result.data = ExpectedValue

\* C10: whenever Tool.execute invokes the handler, the handler receives exactly
\* the supplied arguments, undeclared names included, plus the default of every
\* required parameter that was absent; no supplied value is overwritten and no
\* default of a parameter that is not required is injected.
C10_HandlerReceives ==
    frame.invoked =>
        /\ AsMap(frame.received) = ExpectedReceived
        /\ DistinctKeys(frame.received)
        /\ \A k \in Keys(call.arguments) :
               Get(frame.received, k) = Get(call.arguments, k)
        /\ \A i \in DOMAIN call.tool.parameters :
               (~call.tool.parameters[i].required
                    /\ call.tool.parameters[i].name \notin Keys(call.arguments))
                   => ~Has(frame.received, call.tool.parameters[i].name)

\* C10 witness: a direct call with the undeclared key z, a required parameter's
\* default injected and an optional parameter's default left out.
C10_Witness ==
    /\ call.via = "direct" /\ frame.invoked
    /\ "z" \in Keys(call.arguments) /\ Has(frame.received, "z")
    /\ AbsentWithDefault # {}
    /\ \E i \in DOMAIN call.tool.parameters :
           /\ ~call.tool.parameters[i].required
           /\ call.tool.parameters[i].default # PyNone
           /\ ~Has(frame.received, call.tool.parameters[i].name)


\* C11: every Result that Tool.execute or an executor's execute returns is in one
\* of two states: success with no error set (the data is whatever the handler
\* returned, None included), or failure with no data and an error message set
\* (a str, which is empty when the handler raised with an empty message).
ResultStates(r) ==
    \/ r.success /\ r.error = PyNone
    \/ ~r.success /\ r.data = PyNone /\ r.error # PyNone /\ r.error.t = "str"
C11_ResultTwoStates ==
    frame.kind = "returned" => ResultStates(frame.result)
\* an executor returned a failure made from a raised exception, and, in another
\* behaviour, a success; here the failure after the handler ran
C11_Witness ==
    /\ ExecutorDone
    /\ frame.kind = "returned"
    /\ frame.invoked
    /\ ~frame.result.success
    /\ frame.result.error = PyStr(<<"boom">>)
    /\ frame.result.data = PyNone


\* ------------------------------------------- the registry call a step made
\* the tool a successful register call was given
RegisteredTool(c) == Tool(c.name, DescriptionOf(c.name), << >>, c.category, c.tags, NoHandler)

\* C12: register(tool) with a name not yet registered succeeds (and only then);
\* afterwards get(name) is that tool, the size has grown by one, the tool is in
\* get_by_category(tool.category) when a category is set (a non-empty string) and
\* in get_by_tag(t) for every tag t of the tool, and get, get_by_category and
\* get_by_tag give for every other registered tool what they gave before.
C12_RegisterPostconditions ==
    [][regCall'.op = "register" =>
        /\ regCall'.raised <=> regCall'.name \in DOMAIN registry._tools
        /\ ~regCall'.raised =>
            LET tool == RegisteredTool(regCall')
            IN  /\ get(registry', tool.name) = tool
                /\ __len__(registry') = __len__(registry) + 1
                /\ Truthy(tool.category) =>
                       tool \in get_by_category(registry', tool.category.v)
                /\ \A i \in DOMAIN tool.tags : tool \in get_by_tag(registry', tool.tags[i])
                /\ \A other \in ToolNames \ {tool.name} :
                       get(registry', other) = get(registry, other)
                /\ \A c \in CategoryKeys :
                       get_by_category(registry', c) \ {tool} = get_by_category(registry, c)
                /\ \A t \in TagKeys :
                       get_by_tag(registry', t) \ {tool} = get_by_tag(registry, t)]_vars
\* a tool with a category and two different tags was registered next to another
\* tool that shares its category and one of its tags
C12_Witness ==
    /\ regCall.op = "register" /\ ~regCall.raised
    /\ Truthy(regCall.category)
    /\ Len(regCall.tags) = 2 /\ regCall.tags[1] # regCall.tags[2]
    /\ __len__(registry) = 2
    /\ Cardinality(get_by_category(registry, regCall.category.v)) = 2
    /\ Cardinality(get_by_tag(registry, regCall.tags[1])) = 2


\* the arguments the lookups are called with
Queries == {PyNone, PyStr(""), PyStr("aB"), PyStr("T"), PyStr("ac")}
SearchCategories == {PyNone, PyStr(""), PyStr("c1"), PyStr("c9")}
SearchTags == {PyNone, PyList(<< >>), PyList(<<"x">>), PyList(<<"y", "w">>)}

\* C13: unregister(name) of a registered name returns the tool registered under
\* it; afterwards the name is in no key of the primary mapping and in no category
\* or tag index set, and every result of get, get_by_category, get_by_tag,
\* get_by_tags, search (by query, by category, by tags) and all is what it was
\* before without that tool.
C13_UnregisterPostconditions ==
    [][(regCall'.op = "unregister" /\ regCall'.name \in DOMAIN registry._tools) =>
        LET name == regCall'.name
            tool == registry._tools[name]
        IN  /\ regCall'.returned = tool
            /\ name \notin DOMAIN registry'._tools
            /\ \A c \in DOMAIN registry'._categories : name \notin registry'._categories[c]
            /\ \A t \in DOMAIN registry'._tags : name \notin registry'._tags[t]
            /\ get(registry', name) = PyNone
            /\ all(registry') = all(registry) \ {tool}
            /\ \A other \in ToolNames \ {name} : get(registry', other) = get(registry, other)
            /\ \A c \in CategoryKeys :
                   get_by_category(registry', c) = get_by_category(registry, c) \ {tool}
            /\ \A t \in TagKeys :
                   get_by_tag(registry', t) = get_by_tag(registry, t) \ {tool}
            /\ \A tags \in QueryTagLists, match_all \in BOOLEAN :
                   get_by_tags(registry', tags, match_all)
                       = get_by_tags(registry, tags, match_all) \ {tool}
            /\ \A query \in Queries :
                   search(registry', query, PyNone, PyNone)
                       = search(registry, query, PyNone, PyNone) \ {tool}
            /\ \A category \in SearchCategories :
                   search(registry', PyNone, category, PyNone)
                       = search(registry, PyNone, category, PyNone) \ {tool}
            /\ \A tags \in SearchTags :
                   search(registry', PyNone, PyNone, tags)
                       = search(registry, PyNone, PyNone, tags) \ {tool}]_vars
\* a categorised, tagged tool was unregistered while another tool with the same
\* category and a shared tag stays registered
C13_Witness ==
    /\ regCall.op = "unregister" /\ regCall.returned # PyNone
    /\ Truthy(regCall.returned.category) /\ regCall.returned.tags # << >>
    /\ get(registry, regCall.name) = PyNone
    /\ Cardinality(get_by_category(registry, regCall.returned.category.v)) = 1
    /\ Cardinality(get_by_tag(registry, regCall.returned.tags[1])) = 1


\* the categories and tags the registered tools carry; a tool carries a category
\* when its category is a non-empty string
CarriedCategories == {t.category.v : t \in {u \in all(registry) : Truthy(u.category)}}
CarriedTags == UNION {{t.tags[i] : i \in DOMAIN t.tags} : t \in all(registry)}

\* C14: in every state reached by register and unregister calls, categories() is
\* exactly the set of categories carried by a registered tool and tags_list() is
\* exactly the set of tags carried by a registered tool.
C14_ListsCarriedKeys ==
    /\ categories(registry) = CarriedCategories
    /\ tags_list(registry) = CarriedTags
\* the last tool of a category and of a tag was unregistered: both are index keys
\* with an empty set and are not listed, while another category and tag are
C14_Witness ==
    /\ regCall.op = "unregister" /\ regCall.returned # PyNone
    /\ Truthy(regCall.returned.category) /\ regCall.returned.tags # << >>
    /\ regCall.returned.category.v \in DOMAIN registry._categories
    /\ regCall.returned.category.v \notin categories(registry)
    /\ regCall.returned.tags[1] \in DOMAIN registry._tags
    /\ regCall.returned.tags[1] \notin tags_list(registry)
    /\ categories(registry) # {} /\ tags_list(registry) # {}


\* the tags a tool carries
TagsOf(t) == {t.tags[i] : i \in DOMAIN t.tags}

\* C15: get_by_tags(tags, match_all) is empty for an empty tags list; for a
\* non-empty list it is exactly the registered tools carrying every listed tag
\* when match_all is true, and exactly those carrying at least one listed tag
\* when match_all is false; a tag no tool carries contributes the empty set.
C15_GetByTags ==
    \A tags \in QueryTagLists :
        LET listed == {tags[i] : i \in DOMAIN tags}
        IN  /\ get_by_tags(registry, tags, TRUE) =
                   IF tags = << >> THEN {}
                   ELSE {t \in all(registry) : listed \subseteq TagsOf(t)}
            /\ get_by_tags(registry, tags, FALSE) =
                   IF tags = << >> THEN {}
                   ELSE {t \in all(registry) : listed \cap TagsOf(t) # {}}
\* two tools are registered and the two match modes differ: ["x","y"] matches
\* both tools in any-mode and one in all-mode, ["x","w"] matches one tool in
\* any-mode and none in all-mode
C15_Witness ==
    /\ __len__(registry) = 2
    /\ Cardinality(get_by_tags(registry, <<"x", "y">>, FALSE)) = 2
    /\ Cardinality(get_by_tags(registry, <<"x", "y">>, TRUE)) = 1
    /\ Cardinality(get_by_tags(registry, <<"x", "w">>, FALSE)) = 1
    /\ get_by_tags(registry, <<"x", "w">>, TRUE) = {}
    /\ get_by_tags(registry, << >>, FALSE) = {}


\* query is a substring of text when the case of the letters is ignored
SubstringIgnoringCase(query, text) ==
    LET q == Chars(query)
        s == Chars(text)
    IN  \E off \in 0..(Len(s) - Len(q)) :
            \A i \in DOMAIN q : LowerChar(q[i]) = LowerChar(s[off + i])

\* C16: search(query, category, tags) is exactly the set of registered tools that
\* satisfy every criterion given: the tool's category equals category, the tool
\* carries at least one of the tags, query is a case-insensitive substring of the
\* tool's name or description.  A criterion is not given when it is None or empty
\* (no tags, the empty string); with no criterion given search equals all().
C16_SearchCriteria ==
    /\ \A query \in Queries, category \in SearchCategories, tags \in SearchTags :
           search(registry, query, category, tags) =
               {t \in all(registry) :
                   /\ (category # PyNone /\ category.v # "") => t.category = category
                   /\ (tags # PyNone /\ tags.v # << >>) =>
                          \E i \in DOMAIN tags.v : tags.v[i] \in TagsOf(t)
                   /\ (query # PyNone /\ query.v # "") =>
                          \/ SubstringIgnoringCase(query.v, t.name)
                          \/ SubstringIgnoringCase(query.v, t.description)}
    /\ search(registry, PyNone, PyNone, PyNone) = all(registry)
\* two tools are registered; all three criteria together select one of them, the
\* query "aB" matching its description "Ab" only when case is ignored; the query
\* "T" alone selects both by name, "ac" selects none ("Ba c" has a blank between),
\* and no criteria gives both
C16_Witness ==
    /\ __len__(registry) = 2
    /\ Cardinality(search(registry, PyStr("aB"), PyStr("c1"), PyList(<<"x">>))) = 1
    /\ Cardinality(search(registry, PyNone, PyStr("c1"), PyNone)) = 2
    /\ Cardinality(search(registry, PyNone, PyNone, PyList(<<"x">>))) = 2
    /\ Cardinality(search(registry, PyStr("T"), PyNone, PyNone)) = 2
    /\ Cardinality(search(registry, PyStr("aB"), PyNone, PyNone)) = 1
    /\ search(registry, PyStr("ac"), PyNone, PyNone) = {}
    /\ Cardinality(search(registry, PyNone, PyNone, PyNone)) = 2


\* ------------------------------------------- the rendering call a state is about
\* the names of the parameters whose required flag is true, in declaration order
RequiredNames(ps) ==
    LET IsRequired(p) == p.required
        kept == SelectSeq(ps, IsRequired)
    IN  [i \in DOMAIN kept |-> kept[i].name]

\* C17: the JSON schema rendered for a tool has type "object", one properties
\* entry per declared parameter (under its name, in declaration order), and a
\* required list holding exactly the names of the parameters whose required flag
\* is true, in declaration order, whether or not they carry a default.
C17_SchemaRequired ==
    fmt.op = "to_json_schema" =>
        LET ps == fmt.tool.parameters
            properties == Get(fmt.out, "properties")
        IN  /\ Get(fmt.out, "type") = "object"
            /\ Len(properties) = Len(ps)
            /\ \A i \in DOMAIN ps : properties[i][1] = ps[i].name
            /\ Get(fmt.out, "required") = RequiredNames(ps)
\* a schema was rendered for a tool whose first parameter is required and has a
\* default and whose second parameter is optional: required lists the first only
C17_Witness ==
    /\ fmt.op = "to_json_schema"
    /\ Len(fmt.tool.parameters) = 2
    /\ fmt.tool.parameters[1].required /\ fmt.tool.parameters[1].default # PyNone
    /\ ~fmt.tool.parameters[2].required
    /\ Get(fmt.out, "required") = <<fmt.tool.parameters[1].name>>
    /\ Len(Get(fmt.out, "properties")) = 2


\* the one content block of an MCP rendering
ContentText == Get(fmt.out, "content")[1].text

\* the Result has an error message: its error is set and is not the empty string
HasMessage(r) == r.error # PyNone /\ r.error.v # << >>

\* C18: for every Result, MCP format_result returns exactly one content block,
\* of type "text", and isError = not result.success; on success the text is ""
\* for data None, the data itself when it is text, and its JSON encoding
\* otherwise; on failure the text is the error message, or "Unknown error" when
\* there is no message (None or the empty string).
C18_McpFormatResult ==
    fmt.op = "mcp.format_result" =>
        LET result == fmt.result
            content == Get(fmt.out, "content")
        IN  /\ Keys(fmt.out) = {"content", "isError"}
            /\ Len(content) = 1
            /\ content[1].type = "text"
            /\ Get(fmt.out, "isError") = ~result.success
            /\ (result.success /\ result.data = PyNone) => content[1].text = << >>
            /\ (result.success /\ result.data # PyNone /\ result.data.t = "str") =>
                   content[1].text = result.data.v
            /\ (result.success /\ result.data # PyNone /\ result.data.t # "str") =>
                   content[1].text = JsonDumps(result.data)
            /\ (~result.success /\ HasMessage(result)) =>
                   content[1].text = result.error.v
            /\ (~result.success /\ ~HasMessage(result)) =>
                   content[1].text = <<"Unknown error">>
\* a successful Result with dict data was rendered as the text {"k": 1}
C18_Witness ==
    /\ fmt.op = "mcp.format_result"
    /\ fmt.result.success
    /\ fmt.result.data = PyDict(<< <<"k", PyInt(1)>> >>)
    /\ ContentText = <<"{", "\"", "k", "\"", ": ", "1", "}">>
    /\ Get(fmt.out, "isError") = FALSE


\* the structured rendering is the plain rendering with structuredContent = data
StructuredAttached ==
    fmt.out = Put(MCPExecutor_format_result(fmt.result), "structuredContent", fmt.result.data)
\* the structured rendering is the plain rendering, with no structuredContent
StructuredPlain ==
    /\ fmt.out = MCPExecutor_format_result(fmt.result)
    /\ ~Has(fmt.out, "structuredContent")

\* C19 as stated: format_call_tool_result attaches the raw data under
\* structuredContent exactly when structured is requested, the call succeeded and
\* the data is not text; otherwise the output is format_result(result).
C19_StructuredWhenNotText ==
    fmt.op = "mcp.format_call_tool_result" =>
        IF /\ fmt.structured
           /\ fmt.result.success
           /\ (fmt.result.data = PyNone \/ fmt.result.data.t # "str")
        THEN StructuredAttached
        ELSE StructuredPlain

\* C19, amended: format_call_tool_result attaches the raw data under
\* structuredContent exactly when structured is requested, the call succeeded and
\* the data is neither None nor text; in every other case (not requested, failed
\* result, data None, text data) the output is format_result(result) with no
\* structuredContent key.
C19_StructuredWhenData ==
    fmt.op = "mcp.format_call_tool_result" =>
        IF /\ fmt.structured
           /\ fmt.result.success
           /\ fmt.result.data # PyNone
           /\ fmt.result.data.t # "str"
        THEN StructuredAttached
        ELSE StructuredPlain
\* a successful Result with dict data was rendered with structured requested and
\* carries the dict under structuredContent next to its text rendering
C19_Witness ==
    /\ fmt.op = "mcp.format_call_tool_result"
    /\ fmt.structured /\ fmt.result.success
    /\ fmt.result.data = PyDict(<< <<"k", PyInt(1)>> >>)
    /\ Has(fmt.out, "structuredContent")
    /\ Get(fmt.out, "structuredContent") = fmt.result.data
    /\ ContentText = JsonDumps(fmt.result.data)

\* C20: OpenAI format_result returns text: for a successful Result the data
\* itself when it is text and its JSON encoding otherwise, for a failed Result
\* "Error: " followed by the error message; format_tool_response has content =
\* format_result(result), the given tool_call_id, and role "tool".
C20_OpenAIFormat ==
    /\ fmt.op = "openai.format_result" =>
        LET result == fmt.result
        IN  /\ (result.success /\ result.data # PyNone /\ result.data.t = "str") =>
                   fmt.out = result.data.v
            /\ (result.success /\ (result.data = PyNone \/ result.data.t # "str")) =>
                   fmt.out = JsonDumps(result.data)
            /\ (~result.success /\ result.error # PyNone) =>
                   fmt.out = <<"Error: ">> \o result.error.v
    /\ fmt.op = "openai.format_tool_response" =>
        /\ Keys(fmt.out) = {"role", "tool_call_id", "content"}
        /\ Get(fmt.out, "role") = "tool"
        /\ Get(fmt.out, "tool_call_id") = fmt.tool_call_id
        /\ Get(fmt.out, "content") = OpenAIExecutor_format_result(fmt.result)
        /\ (~fmt.result.success /\ fmt.result.error # PyNone) =>
               Get(fmt.out, "content") = <<"Error: ">> \o fmt.result.error.v
        /\ (fmt.result.success /\ fmt.result.data.t = "str") =>
               Get(fmt.out, "content") = fmt.result.data.v
\* a response message was built for call_2 from a failed Result: its content is
\* "Error: boom"
C20_Witness ==
    /\ fmt.op = "openai.format_tool_response"
    /\ fmt.tool_call_id = "call_2"
    /\ ~fmt.result.success
    /\ fmt.result.error = PyStr(<<"boom">>)
    /\ Get(fmt.out, "content") = <<"Error: ", "boom">>
    /\ Get(fmt.out, "tool_call_id") = "call_2"


\* the messages the call's arguments deserve: one per absent required parameter in
\* declaration order, then one per undeclared argument key in argument order
ExpectedMessages ==
    LET IsAbsentRequired(p) == p.required /\ p.name \notin Keys(call.arguments)
        IsUndeclared(item) == item[1] \in UndeclaredKeys
        absent == SelectSeq(call.tool.parameters, IsAbsentRequired)
        undeclared == SelectSeq(call.arguments, IsUndeclared)
    IN  [i \in DOMAIN absent |-> <<"Missing required parameter: ", absent[i].name>>]
        \o [i \in DOMAIN undeclared |-> <<"Unknown parameter: ", undeclared[i][1]>>]

\* C26: validate_arguments reports every violation: its list is one "Missing
\* required parameter: <name>" per absent required parameter in declaration
\* order, then one "Unknown parameter: <key>" per undeclared key in argument
\* order; the list is empty exactly when nothing is violated, and otherwise an
\* executor's execute returns fail of the list joined by "; " without invoking
\* the handler.
C26_AllViolationsReported ==
    call.via \in Executors =>
        /\ validate_arguments(call.tool, call.arguments) = ExpectedMessages
        /\ ExpectedMessages = << >> <=> (RequiredAbsent = {} /\ UndeclaredKeys = {})
        /\ ExpectedMessages # << >> =>
               /\ frame.pc = "done" /\ frame.kind = "returned"
               /\ frame.result = fail(Join(ExpectedMessages, <<"; ">>))
               /\ ~frame.invoked
\* an executor call with two absent required parameters and two undeclared keys
\* failed with four messages
C26_Witness ==
    /\ ExecutorDone
    /\ Cardinality(RequiredAbsent) = 2 /\ Cardinality(UndeclaredKeys) = 2
    /\ Len(ExpectedMessages) = 4
    /\ ~frame.result.success
    /\ Contains(frame.result.error.v, <<"; ", "Unknown parameter: ", "z">>)


\* C27: in every state reached by register and unregister calls, for every
\* non-empty category c the index lookup get_by_category(c) equals the attribute
\* filter search(category=c), and both are exactly the registered tools whose
\* category is c; get_by_tag(t) is exactly the registered tools whose tags
\* contain t.
C27_IndexAgreesWithAttributes ==
    /\ \A c \in CategoryKeys \ {""} :
           /\ get_by_category(registry, c) = search(registry, PyNone, PyStr(c), PyNone)
           /\ get_by_category(registry, c) = {t \in all(registry) : t.category = PyStr(c)}
    /\ \A t \in TagKeys :
           get_by_tag(registry, t) = {u \in all(registry) : t \in TagsOf(u)}
\* after an unregister, one tool of category c1 with tag x remains next to the
\* emptied entries of the other: both lookups return exactly that tool
C27_Witness ==
    /\ regCall.op = "unregister" /\ regCall.returned # PyNone
    /\ regCall.returned.category = PyStr("c1") /\ "x" \in TagsOf(regCall.returned)
    /\ Cardinality(get_by_category(registry, "c1")) = 1
    /\ Cardinality(search(registry, PyNone, PyStr("c1"), PyNone)) = 1
    /\ Cardinality(get_by_tag(registry, "x")) = 1
    /\ get_by_category(registry, "c2") = {}

\* C29: unregister(name) for a name that is not registered returns None and
\* leaves the primary mapping and both indices as they were, also when the name
\* had been registered and unregistered before.
C29_UnregisterAbsentNoOp ==
    [][(regCall'.op = "unregister" /\ regCall'.name \notin DOMAIN registry._tools) =>
          /\ regCall'.returned = PyNone
          /\ ~regCall'.raised
          /\ registry'._tools = registry._tools
          /\ registry'._categories = registry._categories
          /\ registry'._tags = registry._tags]_vars
\* an unregister found nothing in a registry that is empty again after earlier
\* registrations: the index keys of the removed tools are still there, empty
C29_Witness ==
    /\ regCall.op = "unregister" /\ regCall.returned = PyNone
    /\ registry._tools = << >>
    /\ DOMAIN registry._categories # {} /\ DOMAIN registry._tags # {}
    /\ \A c \in DOMAIN registry._categories : registry._categories[c] = {}
    /\ \A t \in DOMAIN registry._tags : registry._tags[t] = {}


\* every query result of a registry: all(), size, membership, get, get_by_category,
\* get_by_tag, get_by_tags, search, categories() and tags_list()
Observe(self) ==
    [all |-> all(self),
     size |-> __len__(self),
     has |-> [n \in ToolNames |-> __contains__(self, n)],
     get |-> [n \in ToolNames |-> get(self, n)],
     by_category |-> [c \in CategoryKeys |-> get_by_category(self, c)],
     by_tag |-> [t \in TagKeys |-> get_by_tag(self, t)],
     by_tags |-> [tags \in QueryTagLists, match_all \in BOOLEAN |->
                    get_by_tags(self, tags, match_all)],
     by_query |-> [query \in Queries |-> search(self, query, PyNone, PyNone)],
     by_search |-> [category \in SearchCategories, tags \in SearchTags |->
                      search(self, PyNone, category, tags)],
     categories |-> categories(self),
     tags_list |-> tags_list(self)]

\* the registry without the index keys whose set is empty
WithoutEmptyKeys(self) ==
    LET Kept(index) == [k \in NonEmptyKeys(index) |-> index[k]]
    IN  [self EXCEPT !._categories = Kept(@), !._tags = Kept(@)]

\* C28: from any reachable registry state, registering a tool under a fresh name
\* and then unregistering that name gives back every query result of the state
\* before the two calls, although the tool's index keys may remain, empty.
\* Stated in two parts: in every reachable state (the state after the two calls
\* is one) the query results are those of the registry without its empty index
\* keys; and unregistering the name just registered returns the tool and leaves,
\* empty index keys aside, the registry that was there before the register call.
C28_RegisterUnregisterRestores ==
    /\ [](Observe(registry) = Observe(WithoutEmptyKeys(registry)))
    /\ [][(regCall'.op = "register" /\ ~regCall'.raised) =>
            LET after == unregister(registry', regCall'.name)
            IN  /\ after.tool = RegisteredTool(regCall')
                /\ WithoutEmptyKeys(after.reg) = WithoutEmptyKeys(registry)]_vars
\* a tool with a category and tags was registered in the empty registry and
\* unregistered: its keys remain in both indices and every query result is that
\* of the empty registry
C28_Witness ==
    /\ regCall.op = "unregister" /\ regCall.returned # PyNone
    /\ Truthy(regCall.returned.category) /\ regCall.returned.tags # << >>
    /\ registry # EmptyRegistry
    /\ DOMAIN registry._categories # {} /\ DOMAIN registry._tags # {}
    /\ Observe(registry) = Observe(EmptyRegistry)


\* C24: with one writer running register or unregister step by step and a reader
\* running a whole read between any two steps, get_by_category, get_by_tag and
\* get_by_tags subscript the primary mapping only with names that are its keys
\* (no KeyError) and return registered tools only, also while a name that was
\* popped is still in an index set.
C24_ReadsSkipAbsentNames ==
    read.op # "none" =>
        /\ LookedUp(registry, read.names) \subseteq DOMAIN registry._tools
        /\ read.result \subseteq all(registry)
        /\ \A n \in read.names \ DOMAIN registry._tools :
               \A t \in read.result : t.name # n
\* unregister has popped a tool and not yet cleaned the category index; a
\* get_by_category resolved an index set that still holds the popped name and
\* returned the other tool of the category only
C24_Witness ==
    /\ writer.op = "unregister" /\ writer.pc = "category"
    /\ read.op = "get_by_category"
    /\ writer.tool.name \in read.names
    /\ writer.tool.name \notin DOMAIN registry._tools
    /\ Cardinality(read.names) = 2
    /\ Cardinality(read.result) = 1

\* C25: over every sequence of register steps, unregister steps and reads, the
\* key sets of the category index and of the tag index never shrink, and a read
\* leaves the registry as it is.
C25_IndexKeysNeverShrink ==
    [][/\ DOMAIN registry._categories \subseteq DOMAIN registry'._categories
       /\ DOMAIN registry._tags \subseteq DOMAIN registry'._tags
       /\ (read.op = "none" /\ read'.op # "none") => registry' = registry]_vars
\* every registered tool was unregistered again: the registry holds no tool, its
\* category and tag keys are still there with empty sets, and a read of such a
\* key returned nothing
C25_Witness ==
    /\ writer = NoWriter
    /\ registry._tools = << >>
    /\ DOMAIN registry._categories # {} /\ DOMAIN registry._tags # {}
    /\ read.op = "get_by_tag"
    /\ read.arg \in DOMAIN registry._tags
    /\ read.result = {}

\* C23: a Tool built by tool_from_function has one parameter per parameter of the
\* signature other than *args and **kwargs, in order and under the same name; a
\* built parameter is required exactly when the signature gives no default and
\* otherwise carries the signature's default; none is both required and
\* defaulted; and the function itself is the bound handler.
C23_BuiltFromSignature ==
    fmt.op = "tool_from_function" =>
        LET signature == fmt.func.signature
            declared == SelectSeq(signature, LAMBDA p : p.name \notin {"args", "kwargs"})
            built == fmt.out.parameters
        IN  /\ Len(built) = Len(declared)
            /\ \A i \in DOMAIN built :
                /\ built[i].name = declared[i].name
                /\ built[i].required <=> declared[i].default = Empty
                /\ declared[i].default # Empty => built[i].default = declared[i].default
                /\ ~(built[i].required /\ built[i].default # PyNone)
            /\ \A i \in DOMAIN signature :
                signature[i].kind \in {"VAR_POSITIONAL", "VAR_KEYWORD"} =>
                    \A k \in DOMAIN built : built[k].name # signature[i].name
            /\ fmt.out._handler = fmt.func

\* built from def t1(a, *args, b=None, **kwargs)
C23_Witness ==
    /\ fmt.op = "tool_from_function"
    /\ Len(fmt.func.signature) = 4
    /\ Len(fmt.out.parameters) = 2
    /\ fmt.out.parameters[1].required
    /\ fmt.func.signature[3].default = PyNone
    /\ ~fmt.out.parameters[2].required

\* the tool with every other handler bound, and with none
HandlerVariants(tool) == {[tool EXCEPT !._handler = h] : h \in Handlers \cup {NoHandler}}

\* C30: the schema and the format_tool output of each of the four executors are
\* the same for every two tools that differ in the handler only (bound or not),
\* and set_handler changes no field of the Tool but the handler.
C30_HandlerNeverRendered ==
    /\ fmt.op = "to_json_schema" =>
        \A other \in HandlerVariants(fmt.tool) : to_json_schema(other) = fmt.out
    /\ fmt.op = "format_tool" =>
        \A other \in HandlerVariants(fmt.tool) :
            format_tool(fmt.executor, other) = fmt.out
    /\ fmt.op = "set_handler" =>
        /\ DOMAIN fmt.out = DOMAIN fmt.tool
        /\ \A field \in DOMAIN fmt.tool \ {"_handler"} : fmt.out[field] = fmt.tool[field]
        /\ fmt.out._handler = fmt.func

\* a tool with a handler bound and parameters, rendered by the generic executor
C30_Witness ==
    /\ fmt.op = "format_tool"
    /\ fmt.executor = "generic"
    /\ fmt.tool._handler.bound
    /\ fmt.tool.parameters # << >>
    /\ fmt.tool.category # PyNone

\* the default registry object; empty before the first call makes it
DefaultRegistry(default, objects) ==
    IF default = PyNone THEN EmptyRegistry ELSE objects[default.id]

\* the Tool a shortcut call builds or is handed
ShortcutTool(c) ==
    IF c.op = "tool"
    THEN tool_from_function(c.func, c.args.name, c.args.description, c.args.category,
                            c.args.tags)
    ELSE c.tool

\* C21: get_default_registry returns the same ToolRegistry object on every call
\* (the global, once set, is never set again, and every call returns it);
\* register_tool and the tool decorator insert the Tool into that object and
\* return it, so that get(name) on the default registry is the returned Tool; a
\* name already in the default registry makes them raise and leaves the default
\* registry, like every other ToolRegistry object, as it was.
C21_DefaultRegistryShortcut ==
    /\ [](shortcut.op = "get_default_registry" =>
            /\ shortcut.returned = _default_registry
            /\ _default_registry # PyNone
            /\ _default_registry.id \in DOMAIN heap)
    /\ []((shortcut.op \in {"register_tool", "tool"} /\ ~shortcut.raised) =>
            /\ shortcut.returned = ShortcutTool(shortcut)
            /\ get(DefaultRegistry(_default_registry, heap), shortcut.name) = shortcut.returned)
    /\ [][/\ _default_registry # PyNone => _default_registry' = _default_registry
          /\ (shortcut.op = "none" /\ shortcut'.op \in {"register_tool", "tool"}) =>
                LET before == DefaultRegistry(_default_registry, heap)
                    after == DefaultRegistry(_default_registry', heap')
                IN  /\ shortcut'.raised <=> shortcut'.name \in DOMAIN before._tools
                    /\ shortcut'.raised => after = before
                    /\ ~shortcut'.raised =>
                         after = register(before, ShortcutTool(shortcut')).reg
                    /\ \A id \in DOMAIN heap \ {_default_registry'.id} :
                         heap'[id] = heap[id]]_vars

\* the decorator raised for a name the default registry holds, while another
\* ToolRegistry object holds a tool too
C21_Witness ==
    /\ shortcut.op = "tool"
    /\ shortcut.raised
    /\ \E id \in DOMAIN heap :
        /\ Ref(id) # _default_registry
        /\ DOMAIN heap[id]._tools # {}
    /\ DOMAIN DefaultRegistry(_default_registry, heap)._tools = ToolNames

\* C22: with a loop running on the calling thread the operation goes to a worker
\* thread and the caller waits in a bounded wait; once the wait has timed out the
\* caller is released with the timeout error, whether the asynchronous operation
\* has completed or not.
C22_TimeoutReleasesCaller ==
    /\ [](bridge.loop = "running" => bridge.worker # "none")
    /\ (bridge.pc = "exit" /\ bridge.outcome = "TimeoutError")
            ~> (bridge.pc = "done" /\ bridge.outcome = "TimeoutError")

====
